---- MODULE Spec2Model ----
(***************************************************************************)
(* Reliability gateway: circuit breakers, provider routing and the retry / *)
(* failover loop.  Two implementations live in the repository:             *)
(*   - the TypeScript gateway of milestone M4 (two-state CircuitBreaker,   *)
(*     Router, ProviderClient.call / callWithRetry), specification SpecTS; *)
(*   - the Go implementation guide (three-state CircuitBreaker,            *)
(*     HTTPClient.SendRequest), specification SpecGo.                      *)
(* SpecCB drives one breaker object of each kind with every sequence of    *)
(* calls of its public methods.                                            *)
(* Time is a discrete clock `now`; one tick stands for a fixed slice of    *)
(* wall-clock time and the reset timeouts are counted in ticks.            *)
(***************************************************************************)
EXTENDS Integers, Sequences, FiniteSets, TLC

\* ------------------------------------------------------------------ bounds
MaxTime == 2          \* the clock stops advancing here
NumReqs == 2          \* concurrent ProviderClient.call invocations
MaxMade == 4          \* doRequest calls begun in one run, over all requests
ResetTimeout == 1     \* CircuitBreakerConfig.resetTimeout, in ticks

NumGo == 2            \* goroutines calling HTTPClient.SendRequest
MaxLockCalls == 2     \* SendRequest calls in all, followed lock by lock
MaxCalls == 3         \* SendRequest calls one goroutine makes
MaxThreshold == 3     \* config.CircuitBreaker.Threshold ranges over 1..this
GoTimeout == 1        \* config.CircuitBreaker.Timeout, in ticks

MaxSolo == 7          \* doRequest calls begun in one run of SpecSolo
MaxOps == 6           \* method calls made on the breakers driven by SpecCB
MaxReset == 2         \* SpecCB draws the reset timeout from 1..this

ChunkTimeout == 1     \* StreamingProviderClient.chunkTimeout, in ticks
MaxReads == 3         \* reader.read() calls that deliver bytes, per stream
MaxLines == 2         \* complete SSE lines one read can bring

MaxRetryNo == 5       \* calculateBackoff is called for attempts 1..this
RandomSteps == 20     \* Math.random() ranges over i / this, 0 <= i < this

NumHandlers == 2      \* concurrent calls of Handler.ChatCompletion

\* ------------------------------------------------- program constants (TS)
FailureThreshold == 3 \* config?.failureThreshold ?? 3
MaxAttempts == 3      \* retryConfig?.maxAttempts ?? 3

\* ------------------------------------------------- program constants (Go)
MaxRetries == 3       \* retry.max_retries of config.yaml

Providers == <<"openai", "anthropic">>   \* Router.providers, in order
ProviderSet == {Providers[i] : i \in 1..Len(Providers)}
Reqs == 1..NumReqs

GoProviders == {"openai"}     \* the provider SpecGo's callers name
Goroutines == 1..NumGo
\* A CircuitBreaker object is named by its provider and the goroutine whose
\* getCircuitBreaker created it
Instances == ProviderSet \X Goroutines
Nil == <<"nil", 0>>
NoBreaker == [state |-> "absent"]   \* no object made under this name yet
NoOp == [op |-> "none"]
Kinds == {"ts", "go"}   \* the two CircuitBreaker classes, as driven by SpecCB

VARIABLES
  now,          \* the clock (Date.now() / time.Now())
  \* --- TypeScript gateway
  circuit,      \* provider -> CircuitBreaker {state, consecutiveFails, lastFailure}
  pc,           \* request -> where its call() is suspended
  cur,          \* request -> `provider` of call()
  attempt,      \* request -> `attempt` of callWithRetry()
  totalAttempts,\* request -> `totalAttempts` of call()
  lastError,    \* request -> type of the error caught last (`lastError` of
                \*            callWithRetry, then of call() once it is thrown)
  reported,     \* request -> `attempts` of the returned ProviderResponse
  \* --- observations of a request's run (what its log lines add up to)
  made,         \* request -> number of 'attempt' events (doRequest calls)
  waits,        \* request -> number of 'backoff' events (sleeps)
  softOnly,     \* request -> every failure on its current provider was a
                \*            timeout or a 5xx
  startedOpen,  \* request -> its latest doRequest began on an open circuit
                \*            whose reset interval had not elapsed
  alt,          \* request -> other providers that would admit when call()'s
                \*            catch block last ran
  left,         \* request -> providers its call() has given up on
  srvRun,       \* provider -> server faults recorded in a row since its
                \*             circuit was closed with count 0; -1 once another
                \*             outcome has come in between
  srvTripAt,    \* provider -> time at which srvRun last reached the
                \*             threshold, -1 if never
  attemptBudget,\* doRequest calls the run may begin
  \* --- Go HTTPClient
  threshold,    \* config.CircuitBreaker.Threshold
  cbMap,        \* HTTPClient.circuitBreakers: provider -> instance or Nil
  cbs,          \* instance -> CircuitBreaker fields, or NoBreaker
  gpc,          \* goroutine -> where its SendRequest stands
  gprov,        \* goroutine -> `provider` of SendRequest
  gcb,          \* goroutine -> `cb` of SendRequest
  gret,         \* goroutine -> error type its last SendRequest returned
  calls,        \* goroutine -> SendRequest calls begun
  \* --- observations of the calls made on a breaker
  admitIn,      \* goroutine -> breaker state in which IsOpen let it through
  lastOp,       \* instance -> the latest method call on it
  streak,       \* instance -> failures recorded since the latest success
  \* --- one breaker of each class, called method by method
  tsb,          \* a two-state CircuitBreaker
  gob,          \* a three-state CircuitBreaker
  ops,          \* method calls made so far
  \* --- observations of those calls
  last,         \* class -> the latest method call and what it returned
  run,          \* class -> failures recorded in a row since the breaker was
                \*          Closed with count 0; -1 once a success that did
                \*          not leave it so has come in between
  tripAt,       \* class -> time at which `run` last reached the threshold,
                \*          -1 if never
  probeFailAt,  \* time of the latest failure recorded on gob while HalfOpen,
                \* -1 if none
  openSince,    \* class -> time the breaker last went from not Open to Open,
                \*          -1 if never
  outcomesSince,\* class -> outcomes recorded since then (2: two or more)
  admitAfter,   \* class -> a check has admitted a caller since then
  \* --- Go Orchestrator (a goroutine runs one ExecuteRequest)
  eligible,     \* router.modelToProvider[req.Model]
  opc,          \* goroutine -> where its ExecuteRequest stands
  attemptNumber,\* goroutine -> `attemptNumber` of ExecuteRequest
  lastProvider, \* goroutine -> `lastProvider` of ExecuteRequest
  attempts,     \* goroutine -> `attempts` of ExecuteRequest
  oerr,         \* goroutine -> error type ExecuteRequest returned
  preferredOf,  \* goroutine -> req.PreferredProvider of its ExecuteRequest
  \* --- streaming handler (one call of createStreamingHandler's handler)
  spc,            \* where streamRequest stands
  partialContent, \* `partialContent` of streamRequest
  out,            \* what the handler's callbacks wrote to res, in order
  aborted,        \* controller.signal.aborted
  timerAt,        \* time chunkTimeoutId was armed at, -1 when not armed
  fetches,        \* fetch calls made for the request
  sentinel,       \* a `data: [DONE]` line has been read
  reads,          \* reader.read() calls that delivered bytes
  goneAt,         \* writes made to res when the caller disconnected, -1 if
                  \* the caller is still there
  \* --- calculateBackoff, call by call
  bBase,          \* retryConfig.baseDelay, in ms
  bMax,           \* retryConfig.maxDelay, in ms
  bAttempt,       \* `attempt` of the latest call, 0 before the first
  bWait,          \* `wait` of the latest call before the jitter is applied
  bActual,        \* what the latest call returned
  \* --- Handler.ChatCompletion (one call per inbound request)
  hpc,            \* request -> where its ChatCompletion stands
  hbody,          \* request -> the body it came with
  hstatus,        \* request -> HTTP status written by c.JSON, 0 if none
  hcalled,        \* request -> calls of providerClient.Call made for it
  hstreamed,      \* request -> calls of providerClient.CallStream made for it
  \* --- CircuitBreaker.mu and the return of client.Do, step by step
  mu,             \* breaker object -> goroutine holding cb.mu, 0 when free
  pending,        \* goroutine -> what its client.Do returned and SendRequest
                  \* has not recorded yet, "none" otherwise
  \* --- ProviderRouter.SelectProvider, call by call
  rank,           \* provider -> ProviderConfig.Priority
  picked,         \* the latest call: its arguments, the providers whose
                  \* circuit admitted then, and the name returned
  \* --- the mock provider (handleChatCompletion) and who calls it
  direct,         \* the caller posts to the mock itself, not to the gateway
  askFail,        \* the fail_chunk the caller puts in its query string
  mq,             \* the query string the mock received
  mpc,            \* where the mock's handler stands
  mchunk,         \* chunkNum of handleStreaming's loop
  wire,           \* the response body the mock has flushed, line by line
  taken           \* how much of it the gateway's reader has read

tsVars == <<circuit, pc, cur, attempt, totalAttempts, lastError, reported,
            made, waits, softOnly, startedOpen, alt, left, srvRun, srvTripAt,
            attemptBudget>>
goVars == <<threshold, cbMap, cbs, gpc, gprov, gcb, gret, calls,
            admitIn, lastOp, streak>>
cbVars == <<tsb, gob, ops, last, run, tripAt, probeFailAt,
           openSince, outcomesSince, admitAfter>>
orVars == <<eligible, opc, attemptNumber, lastProvider, attempts, oerr,
            preferredOf>>
stVars == <<spc, partialContent, out, aborted, timerAt, fetches, sentinel,
            reads>>
callerVars == <<goneAt>>
boVars == <<bBase, bMax, bAttempt, bWait, bActual>>
haVars == <<hpc, hbody, hstatus, hcalled, hstreamed>>
lockVars == <<mu, pending>>
selVars == <<rank, picked>>
mockVars == <<direct, askFail, mq, mpc, mchunk, wire, taken>>
vars == <<now, tsVars, goVars, cbVars, orVars, stVars, callerVars, boVars,
          haVars, lockVars, selVars, mockVars>>

\* What the TypeScript gateway, the Go client and the bare breakers leave alone
offTS == <<goVars, cbVars, orVars, stVars, callerVars, boVars, haVars,
          lockVars, selVars, mockVars>>
offLock == <<tsVars, cbVars, stVars, callerVars, boVars, haVars, selVars,
            mockVars>>
offGo == <<offLock, lockVars>>
offCB == <<tsVars, goVars, orVars, stVars, callerVars, boVars, haVars,
          lockVars, selVars, mockVars>>
offStream == <<tsVars, goVars, cbVars, orVars, callerVars, boVars, haVars,
              lockVars, selVars, mockVars>>
offHandler == <<now, tsVars, goVars, cbVars, orVars, stVars, callerVars,
                boVars, lockVars, selVars, mockVars>>

Min(S) == CHOOSE x \in S : \A y \in S : x <= y

\* ------------------------------------------------ two-state CircuitBreaker
NewBreakerTS(th, to) ==
  [failureThreshold |-> th, resetTimeout |-> to,
   state |-> "closed", consecutiveFails |-> 0, lastFailure |-> 0]

\* canExecute(): the value returned and the breaker afterwards
CanExecute(cb, t) ==
  IF cb.state = "closed" THEN [ret |-> TRUE, cb |-> cb]
  ELSE IF t - cb.lastFailure > cb.resetTimeout
       THEN [ret |-> TRUE,
             cb |-> [cb EXCEPT !.state = "closed", !.consecutiveFails = 0]]
       ELSE [ret |-> FALSE, cb |-> cb]

RecordSuccessTS(cb) == [cb EXCEPT !.consecutiveFails = 0]

\* A breaker as the constructor or a reset leaves it
AtRestTS(cb) == cb.state = "closed" /\ cb.consecutiveFails = 0

\* A recordFailure that opens one failure late (past the threshold, not at it)
RecordFailureTSLate(cb, t) ==
  LET n == cb.consecutiveFails + 1 IN
  [cb EXCEPT !.consecutiveFails = n,
             !.lastFailure = t,
             !.state = IF n > cb.failureThreshold THEN "open" ELSE @]

\* A recordFailure that counts the failure twice
RecordFailureTSTwice(cb, t) ==
  LET n == cb.consecutiveFails + 2 IN
  [cb EXCEPT !.consecutiveFails = n,
             !.lastFailure = t,
             !.state = IF n >= cb.failureThreshold THEN "open" ELSE @]

RecordFailureTS(cb, t) ==
  LET n == cb.consecutiveFails + 1 IN
  [cb EXCEPT !.consecutiveFails = n,
             !.lastFailure = t,
             !.state = IF n >= cb.failureThreshold THEN "open" ELSE @]

\* ------------------------------------------------------------------ Router
\* The first provider of `order` whose canExecute() returns true, or "null".
\* canExecute() changes a breaker only when it returns true, and the loops
\* stop at the first true, so only the chosen provider's breaker changes.
FirstAdmitted(order, circ, t) ==
  LET ok == {k \in 1..Len(order) : CanExecute(circ[order[k]], t).ret} IN
  IF ok = {} THEN "null" ELSE order[Min(ok)]

Admit(circ, p, t) ==
  IF p = "null" THEN circ ELSE [circ EXCEPT ![p] = CanExecute(@, t).cb]

\* A getHealthyProvider that takes the first provider without asking its
\* circuit
GetHealthyProviderUnchecked(circ, t) == Providers[1]

GetHealthyProvider(circ, t) == FirstAdmitted(Providers, circ, t)

IndexOf(name) == CHOOSE i \in 1..Len(Providers) : Providers[i] = name

\* getNextProvider: the providers after the current one, then (wrap around)
\* the providers before it
NextOrder(currentName) ==
  SubSeq(Providers, IndexOf(currentName) + 1, Len(Providers))
    \o SubSeq(Providers, 1, IndexOf(currentName) - 1)

GetNextProvider(circ, currentName, t) ==
  FirstAdmitted(NextOrder(currentName), circ, t)

\* ----------------------------------------------------------- ProviderError
RawOutcomes == {"200", "200_bad_json", "abort", "fetch_type_error",
                "500", "429", "400"}

\* Factories that would make a 429 retryable on the same provider
ProviderErrorRateLimitRetried(type) ==
  [type |-> type,
   provider_error |-> TRUE,
   retryable |-> type \in {"network", "timeout", "server_error", "rate_limit"},
   failover |-> FALSE]

\* Factories that would make a client fault retryable on the same provider
ProviderErrorClientRetried(type) ==
  [type |-> type,
   provider_error |-> TRUE,
   retryable |-> type \in {"network", "timeout", "server_error", "client_error"},
   failover |-> type = "rate_limit"]

\* The factories of ProviderError: type, retryable, failover
ProviderError(type) ==
  [type |-> type,
   provider_error |-> TRUE,
   retryable |-> type \in {"network", "timeout", "server_error"},
   failover |-> type = "rate_limit"]

\* An error that is no ProviderError (a SyntaxError of response.json(), the
\* Error thrown when the attempts are exhausted)
PlainError(type) ==
  [type |-> type, provider_error |-> FALSE, retryable |-> FALSE,
   failover |-> FALSE]

ErrorOfType(type) ==
  IF type \in {"network", "timeout", "server_error", "rate_limit", "client_error"}
  THEN ProviderError(type) ELSE PlainError(type)

\* doRequest: what it returns ("ok") or throws for a raw outcome of fetch
DoRequest(raw) ==
  CASE raw = "500" -> ProviderError("server_error")
    [] raw = "429" -> ProviderError("rate_limit")
    [] raw = "400" -> ProviderError("client_error")
    [] raw = "abort" -> ProviderError("timeout")
    [] raw = "fetch_type_error" -> ProviderError("network")
    [] raw = "200_bad_json" -> PlainError("decode")
    [] OTHER -> PlainError("ok")

\* ---------------------------------------------------------- ProviderClient
\* A circuit that is open and whose reset interval has not elapsed
OpenUnexpired(cb, t) ==
  cb.state = "open" /\ t - cb.lastFailure <= cb.resetTimeout

\* doRequest calls begun so far by the requests 1..n
RECURSIVE MadeUpTo(_)
MadeUpTo(n) == IF n = 0 THEN 0 ELSE made[n] + MadeUpTo(n - 1)

\* The top of callWithRetry's loop body up to `await doRequest`
BeginAttempt(r, p, n, circ) ==
  /\ MadeUpTo(NumReqs) < attemptBudget
  /\ cur' = [cur EXCEPT ![r] = p]
  /\ attempt' = [attempt EXCEPT ![r] = n]
  /\ pc' = [pc EXCEPT ![r] = "inflight"]
  /\ made' = [made EXCEPT ![r] = @ + 1]
  /\ startedOpen' = [startedOpen EXCEPT ![r] = OpenUnexpired(circ[p], now)]

\* The runs of server faults once canExecute() has reset a circuit (circ is
\* the circuits after the call)
RunAfterAdmit(circ) ==
  [p \in ProviderSet |-> IF AtRestTS(circ[p]) THEN 0 ELSE srvRun[p]]

\* The run of server faults on provider p once an outcome of type `type` has
\* been recorded, cb being p's breaker afterwards
RunAfterOutcome(p, type, cb) ==
  CASE type = "ok" -> IF AtRestTS(cb) THEN 0 ELSE -1
    [] type = "server_error" -> IF srvRun[p] >= 0 THEN srvRun[p] + 1 ELSE -1
    [] OTHER -> -1

\* call(): getHealthyProvider, then the first attempt on it
Call(r) ==
  /\ pc[r] = "idle"
  /\ LET p == GetHealthyProvider(circuit, now) IN
     IF p = "null"
     THEN /\ pc' = [pc EXCEPT ![r] = "failed"]
          /\ lastError' = [lastError EXCEPT ![r] = "no_healthy_provider"]
          /\ UNCHANGED <<circuit, cur, attempt, made, startedOpen>>
     ELSE /\ circuit' = Admit(circuit, p, now)
          /\ BeginAttempt(r, p, 1, circuit')
          /\ UNCHANGED lastError
  /\ softOnly' = [softOnly EXCEPT ![r] = TRUE]
  /\ srvRun' = RunAfterAdmit(circuit')
  /\ UNCHANGED <<now, totalAttempts, reported, waits, alt, left, srvTripAt,
                 attemptBudget, offTS>>

\* callWithRetry: doRequest settles; record, then return, sleep or throw
Respond(r, raw) ==
  /\ pc[r] = "inflight"
  /\ LET e == DoRequest(raw) IN
     IF e.type = "ok"
     THEN /\ circuit' = [circuit EXCEPT ![cur[r]] = RecordSuccessTS(@)]
          /\ reported' = [reported EXCEPT ![r] = totalAttempts[r] + attempt[r]]
          /\ pc' = [pc EXCEPT ![r] = "done"]
          /\ UNCHANGED <<lastError, softOnly, waits>>
     ELSE /\ circuit' = [circuit EXCEPT ![cur[r]] = RecordFailureTS(@, now)]
          /\ softOnly' = [softOnly EXCEPT ![r] =
                           @ /\ e.type \in {"timeout", "server_error"}]
          /\ UNCHANGED reported
          /\ IF e.provider_error /\ (e.failover \/ ~e.retryable)
             THEN /\ pc' = [pc EXCEPT ![r] = "thrown"]
                  /\ lastError' = [lastError EXCEPT ![r] = e.type]
                  /\ UNCHANGED waits
             ELSE IF attempt[r] < MaxAttempts
             THEN /\ pc' = [pc EXCEPT ![r] = "sleeping"]
                  /\ lastError' = [lastError EXCEPT ![r] = e.type]
                  /\ waits' = [waits EXCEPT ![r] = @ + 1]
             ELSE /\ pc' = [pc EXCEPT ![r] = "thrown"]
                  /\ lastError' = [lastError EXCEPT ![r] = "exhausted"]
                  /\ UNCHANGED waits
  /\ LET p == cur[r]
         n == RunAfterOutcome(p, DoRequest(raw).type, circuit'[p]) IN
     /\ srvRun' = [srvRun EXCEPT ![p] = n]
     /\ srvTripAt' = [srvTripAt EXCEPT ![p] =
                        IF n = circuit[p].failureThreshold
                             /\ DoRequest(raw).type = "server_error"
                        THEN now ELSE @]
  /\ UNCHANGED <<now, cur, attempt, totalAttempts, made, startedOpen, alt,
                 left, attemptBudget, offTS>>

\* callWithRetry: the sleep is over, next iteration of the loop
Wake(r) ==
  /\ pc[r] = "sleeping"
  /\ BeginAttempt(r, cur[r], attempt[r] + 1, circuit)
  /\ UNCHANGED <<now, circuit, totalAttempts, lastError, reported, waits,
                 softOnly, alt, left, srvRun, srvTripAt, attemptBudget, offTS>>

\* call(): the catch block around callWithRetry
Catch(r) ==
  /\ pc[r] = "thrown"
  /\ totalAttempts' = [totalAttempts EXCEPT ![r] = @ + MaxAttempts]
  /\ alt' = [alt EXCEPT ![r] =
               {q \in ProviderSet \ {cur[r]} : CanExecute(circuit[q], now).ret}]
  /\ LET e == ErrorOfType(lastError[r])
         next == GetNextProvider(circuit, cur[r], now) IN
     IF e.provider_error /\ e.failover /\ next # "null"
     THEN /\ circuit' = Admit(circuit, next, now)
          /\ BeginAttempt(r, next, 1, circuit')
          /\ softOnly' = [softOnly EXCEPT ![r] = TRUE]
     ELSE /\ pc' = [pc EXCEPT ![r] = "failed"]
          /\ UNCHANGED <<circuit, cur, attempt, made, startedOpen, softOnly>>
  /\ left' = [left EXCEPT ![r] = @ \cup {cur[r]}]
  /\ srvRun' = RunAfterAdmit(circuit')
  /\ UNCHANGED <<now, lastError, reported, waits, srvTripAt, attemptBudget,
                 offTS>>

Tick ==
  /\ now < MaxTime
  /\ now' = now + 1
  /\ UNCHANGED <<tsVars, goVars, cbVars, orVars, stVars, callerVars, boVars,
                 haVars, lockVars, selVars, mockVars>>

\* The Go side before any SendRequest
GoAtRest ==
  /\ cbMap = [p \in ProviderSet |-> Nil]
  /\ cbs = [i \in Instances |-> NoBreaker]
  /\ gpc = [g \in Goroutines |-> "idle"]
  /\ gprov = [g \in Goroutines |-> "none"]
  /\ gcb = [g \in Goroutines |-> Nil]
  /\ gret = [g \in Goroutines |-> "none"]
  /\ calls = [g \in Goroutines |-> 0]
  /\ admitIn = [g \in Goroutines |-> "none"]
  /\ lastOp = [i \in Instances |-> NoOp]
  /\ streak = [i \in Instances |-> 0]

\* Every cb.mu free, no client.Do result waiting to be recorded
LockAtRest ==
  /\ mu = [i \in Instances |-> 0]
  /\ pending = [g \in Goroutines |-> "none"]

\* The mock provider before any request reaches it
NoQuery == [stream |-> "", failChunk |-> [present |-> FALSE]]
MockAtRest ==
  /\ direct = FALSE
  /\ askFail = [present |-> FALSE]
  /\ mq = NoQuery
  /\ mpc = "idle"
  /\ mchunk = 1
  /\ wire = <<>>
  /\ taken = 0

\* No SelectProvider call observed; priorities as in the sample configuration
NoPick == [ret |-> "none"]
SelectAtRest ==
  /\ rank = [p \in ProviderSet |-> IndexOf(p)]
  /\ picked = NoPick

\* The TypeScript side before any call(): no request under way
ReqsAtRest ==
  /\ pc = [r \in Reqs |-> "idle"]
  /\ cur = [r \in Reqs |-> "null"]
  /\ attempt = [r \in Reqs |-> 0]
  /\ totalAttempts = [r \in Reqs |-> 0]
  /\ lastError = [r \in Reqs |-> "none"]
  /\ reported = [r \in Reqs |-> 0]
  /\ made = [r \in Reqs |-> 0]
  /\ waits = [r \in Reqs |-> 0]
  /\ softOnly = [r \in Reqs |-> TRUE]
  /\ startedOpen = [r \in Reqs |-> FALSE]
  /\ alt = [r \in Reqs |-> {}]
  /\ left = [r \in Reqs |-> {}]

TSAtRest ==
  /\ circuit = [p \in ProviderSet |->
                  NewBreakerTS(FailureThreshold, ResetTimeout)]
  /\ ReqsAtRest
  /\ srvRun = [p \in ProviderSet |-> 0]
  /\ srvTripAt = [p \in ProviderSet |-> -1]

\* The Orchestrator before any ExecuteRequest
OrchAtRest ==
  /\ opc = [g \in Goroutines |-> "idle"]
  /\ attemptNumber = [g \in Goroutines |-> 0]
  /\ lastProvider = [g \in Goroutines |-> ""]
  /\ attempts = [g \in Goroutines |-> <<>>]
  /\ oerr = [g \in Goroutines |-> "none"]
  /\ preferredOf = [g \in Goroutines |-> ""]

\* The streaming handler before a request has come in
StreamAtRest ==
  /\ spc = "idle"
  /\ partialContent = <<>>
  /\ out = <<>>
  /\ aborted = FALSE
  /\ timerAt = -1
  /\ fetches = 0
  /\ sentinel = FALSE
  /\ reads = 0
  /\ goneAt = -1

\* The default RetryConfig, no backoff computed yet
BackoffAtRest ==
  /\ bBase = 1000
  /\ bMax = 10000
  /\ bAttempt = 0
  /\ bWait = 0
  /\ bActual = 0

\* Inbound requests, as Handler.ChatCompletion tells them apart: the body
\* does not bind, ValidateRequest returns ValidationErrors or another error,
\* or the request is valid, with its `stream` flag
Inbound == 1..NumHandlers
NoBody == [kind |-> "none", stream |-> FALSE]
Bodies ==
  {[kind |-> k, stream |-> FALSE] : k \in {"unparseable"}}
    \cup {[kind |-> k, stream |-> st] :
            k \in {"invalid_typed", "invalid_other", "valid"},
            st \in BOOLEAN}

\* No inbound request yet
HandlerAtRest ==
  /\ hpc = [h \in Inbound |-> "idle"]
  /\ hbody = [h \in Inbound |-> NoBody]
  /\ hstatus = [h \in Inbound |-> 0]
  /\ hcalled = [h \in Inbound |-> 0]
  /\ hstreamed = [h \in Inbound |-> 0]

\* What the observations of SpecCB's breakers start as
CBObsAtRest ==
  /\ ops = 0
  /\ last = [k \in Kinds |-> NoOp]
  /\ run = [k \in Kinds |-> 0]
  /\ tripAt = [k \in Kinds |-> -1]
  /\ probeFailAt = -1
  /\ openSince = [k \in Kinds |-> -1]
  /\ outcomesSince = [k \in Kinds |-> 0]
  /\ admitAfter = [k \in Kinds |-> FALSE]

\* SpecCB's breakers when no one calls them
CBAtRest ==
  /\ tsb = NewBreakerTS(FailureThreshold, ResetTimeout)
  /\ gob = NoBreaker
  /\ CBObsAtRest

InitTS ==
  /\ now = 0
  /\ threshold = 1
  /\ GoAtRest
  /\ TSAtRest
  /\ attemptBudget = MaxMade
  /\ CBAtRest
  /\ eligible = <<>>
  /\ OrchAtRest
  /\ StreamAtRest
  /\ BackoffAtRest
  /\ HandlerAtRest
  /\ LockAtRest
  /\ MockAtRest
  /\ SelectAtRest

NextTS ==
  \/ \E r \in Reqs : Call(r)
  \/ \E r \in Reqs, raw \in RawOutcomes : Respond(r, raw)
  \/ \E r \in Reqs : Wake(r)
  \/ \E r \in Reqs : Catch(r)
  \/ Tick

SpecTS == InitTS /\ [][NextTS]_vars

\* One call() on its own, followed for more attempts than SpecTS allows
InitSolo ==
  /\ now = 0
  /\ threshold = 1
  /\ GoAtRest
  /\ TSAtRest
  /\ attemptBudget = MaxSolo
  /\ CBAtRest
  /\ eligible = <<>>
  /\ OrchAtRest
  /\ StreamAtRest
  /\ BackoffAtRest
  /\ HandlerAtRest
  /\ LockAtRest
  /\ MockAtRest
  /\ SelectAtRest

NextSolo ==
  \/ Call(1)
  \/ \E raw \in RawOutcomes : Respond(1, raw)
  \/ Wake(1)
  \/ Catch(1)
  \/ Tick

SpecSolo == InitSolo /\ [][NextSolo]_vars

\* A breaker that earlier requests' server faults, the last at time 0, have
\* just opened
TrippedTS ==
  [NewBreakerTS(FailureThreshold, ResetTimeout) EXCEPT
     !.state = "open",
     !.consecutiveFails = FailureThreshold,
     !.lastFailure = 0]

\* One request arriving at a gateway where any of the providers may have
\* been tripped by the requests before it
InitWarm ==
  /\ now = 0
  /\ threshold = 1
  /\ GoAtRest
  /\ \E T \in SUBSET ProviderSet :
       /\ circuit = [p \in ProviderSet |->
                       IF p \in T THEN TrippedTS
                       ELSE NewBreakerTS(FailureThreshold, ResetTimeout)]
       /\ srvRun = [p \in ProviderSet |->
                      IF p \in T THEN FailureThreshold ELSE 0]
       /\ srvTripAt = [p \in ProviderSet |-> IF p \in T THEN 0 ELSE -1]
  /\ ReqsAtRest
  /\ attemptBudget = MaxSolo
  /\ CBAtRest
  /\ eligible = <<>>
  /\ OrchAtRest
  /\ StreamAtRest
  /\ BackoffAtRest
  /\ HandlerAtRest
  /\ LockAtRest
  /\ MockAtRest
  /\ SelectAtRest

SpecWarm == InitWarm /\ [][NextSolo]_vars

\* ---------------------------------------------- three-state CircuitBreaker
NewCircuitBreaker(th, to) ==
  [threshold |-> th, timeout |-> to, state |-> "closed", failureCount |-> 0,
   successCount |-> 0, lastFailureTime |-> 0, openedAt |-> 0]

\* An IsOpen that keeps an Open breaker Open whatever the time
IsOpenNoProbe(cb, t) == [ret |-> cb.state = "open", cb |-> cb]

\* IsOpen(): the value returned and the breaker afterwards
IsOpen(cb, t) ==
  IF cb.state = "open"
  THEN IF t - cb.openedAt > cb.timeout
       THEN [ret |-> FALSE, cb |-> [cb EXCEPT !.state = "half_open"]]
       ELSE [ret |-> TRUE, cb |-> cb]
  ELSE [ret |-> FALSE, cb |-> cb]

\* A RecordSuccess that closes a HalfOpen breaker but keeps its count
RecordSuccessKeepCount(cb) ==
  LET c == [cb EXCEPT !.successCount = @ + 1] IN
  IF c.state = "half_open"
  THEN [c EXCEPT !.state = "closed"]
  ELSE IF c.state = "closed"
  THEN [c EXCEPT !.failureCount = IF @ > 0 THEN @ - 1 ELSE @]
  ELSE c

RecordSuccess(cb) ==
  LET c == [cb EXCEPT !.successCount = @ + 1] IN
  IF c.state = "half_open"
  THEN [c EXCEPT !.state = "closed", !.failureCount = 0]
  ELSE IF c.state = "closed"
  THEN [c EXCEPT !.failureCount = IF @ > 0 THEN @ - 1 ELSE @]
  ELSE c

\* A RecordFailure that opens a Closed breaker one failure late
RecordFailureOpensLate(cb, t) ==
  LET c == [cb EXCEPT !.failureCount = @ + 1, !.lastFailureTime = t] IN
  IF c.state = "half_open"
  THEN [c EXCEPT !.state = "open", !.openedAt = t]
  ELSE IF c.state = "closed"
  THEN IF c.failureCount > c.threshold
       THEN [c EXCEPT !.state = "open", !.openedAt = t]
       ELSE c
  ELSE c

\* A RecordFailure that reopens a HalfOpen breaker on the old timer
RecordFailureKeepTimer(cb, t) ==
  LET c == [cb EXCEPT !.failureCount = @ + 1, !.lastFailureTime = t] IN
  IF c.state = "half_open"
  THEN [c EXCEPT !.state = "open"]
  ELSE IF c.state = "closed"
  THEN IF c.failureCount >= c.threshold
       THEN [c EXCEPT !.state = "open", !.openedAt = t]
       ELSE c
  ELSE c

RecordFailure(cb, t) ==
  LET c == [cb EXCEPT !.failureCount = @ + 1, !.lastFailureTime = t] IN
  IF c.state = "half_open"
  THEN [c EXCEPT !.state = "open", !.openedAt = t]
  ELSE IF c.state = "closed"
  THEN IF c.failureCount >= c.threshold
       THEN [c EXCEPT !.state = "open", !.openedAt = t]
       ELSE c
  ELSE c

\* -------------------------------------------------------------- HTTPClient
\* What client.Do, the body read, the status and the body parse can come to
GoOutcomes == {"ok", "do_error", "deadline_exceeded", "canceled",
               "read_error", "429", "500", "401", "400", "bad_json"}

\* The error SendRequest returns for an outcome
SendResult(o) ==
  CASE o = "ok" -> "nil"
    [] o = "deadline_exceeded" -> "ProviderTimeoutError"
    [] o \in {"do_error", "canceled", "read_error", "500", "bad_json"}
         -> "RetryableError"
    [] o = "429" -> "ProviderRateLimitError"
    [] OTHER -> "NonRetryableError"

\* The breaker after SendRequest has seen the outcome
RecordOutcome(cb, o, t) ==
  IF o = "ok" THEN RecordSuccess(cb) ELSE RecordFailure(cb, t)

\* SendRequest -> getCircuitBreaker: the map lookup
SendRequestBegin(g, p) ==
  /\ gpc[g] = "idle"
  /\ calls[g] < MaxCalls
  /\ calls' = [calls EXCEPT ![g] = @ + 1]
  /\ gprov' = [gprov EXCEPT ![g] = p]
  /\ gret' = [gret EXCEPT ![g] = "none"]
  /\ admitIn' = [admitIn EXCEPT ![g] = "none"]
  /\ IF cbMap[p] # Nil
     THEN /\ gcb' = [gcb EXCEPT ![g] = cbMap[p]]
          /\ gpc' = [gpc EXCEPT ![g] = "check"]
     ELSE /\ gcb' = [gcb EXCEPT ![g] = Nil]
          /\ gpc' = [gpc EXCEPT ![g] = "create"]
  /\ UNCHANGED <<threshold, cbMap, cbs, lastOp, streak>>

\* A SendRequest called on its own, for provider p
Lookup(g, p) ==
  /\ SendRequestBegin(g, p)
  /\ UNCHANGED <<now, offGo, orVars>>

\* getCircuitBreaker: no entry was found; make one and store it
Create(g) ==
  /\ gpc[g] = "create"
  /\ LET i == <<gprov[g], g>> IN
     /\ cbs' = [cbs EXCEPT ![i] = NewCircuitBreaker(threshold, GoTimeout)]
     /\ cbMap' = [cbMap EXCEPT ![gprov[g]] = i]
     /\ gcb' = [gcb EXCEPT ![g] = i]
  /\ gpc' = [gpc EXCEPT ![g] = "check"]
  /\ UNCHANGED <<now, offGo, orVars, threshold, gprov, gret, calls, admitIn,
                 lastOp, streak>>

\* `if cb.IsOpen() { return CircuitBreakerOpenError }` on the Go client's state
IsOpenCall(g) ==
  /\ gpc[g] = "check"
  /\ LET i == gcb[g]
         res == IsOpen(cbs[i], now) IN
     /\ cbs' = [cbs EXCEPT ![i] = res.cb]
     /\ lastOp' = [lastOp EXCEPT ![i] =
                     [op |-> "is_open", pre |-> cbs[i].state]]
     /\ IF res.ret
        THEN /\ gpc' = [gpc EXCEPT ![g] = "idle"]
             /\ gret' = [gret EXCEPT ![g] = "CircuitBreakerOpenError"]
             /\ UNCHANGED admitIn
        ELSE /\ gpc' = [gpc EXCEPT ![g] = "http"]
             /\ admitIn' = [admitIn EXCEPT ![g] =
                              IF cbs[i].state = "open" THEN "probe"
                              ELSE cbs[i].state]
             /\ UNCHANGED gret
  /\ UNCHANGED <<threshold, cbMap, gprov, gcb, calls, streak>>

\* SendRequest: the call of cb.IsOpen, lock to unlock in one step
Check(g) ==
  /\ IsOpenCall(g)
  /\ UNCHANGED <<now, offGo, orVars>>

\* cb.RecordSuccess() or cb.RecordFailure() for outcome o, and the return, on
\* the Go client's state
RecordCall(g, o) ==
  /\ gpc[g] = "http"
  /\ LET i == gcb[g] IN
     /\ cbs' = [cbs EXCEPT ![i] = RecordOutcome(@, o, now)]
     /\ lastOp' = [lastOp EXCEPT ![i] =
                     [op |-> IF o = "ok" THEN "success" ELSE "failure",
                      pre |-> cbs[i].state, canceled |-> o = "canceled"]]
     /\ streak' = [streak EXCEPT ![i] = IF o = "ok" THEN 0 ELSE @ + 1]
  /\ gret' = [gret EXCEPT ![g] = SendResult(o)]
  /\ gpc' = [gpc EXCEPT ![g] = "idle"]
  /\ UNCHANGED <<threshold, cbMap, gprov, gcb, calls, admitIn>>

\* SendRequest: the HTTP exchange is over; record the outcome and return
Finish(g, o) ==
  /\ RecordCall(g, o)
  /\ UNCHANGED <<now, offGo, orVars>>

InitGo ==
  /\ now = 0
  /\ threshold \in 1..MaxThreshold
  /\ GoAtRest
  /\ TSAtRest
  /\ attemptBudget = MaxMade
  /\ CBAtRest
  /\ eligible = <<>>
  /\ OrchAtRest
  /\ StreamAtRest
  /\ BackoffAtRest
  /\ HandlerAtRest
  /\ LockAtRest
  /\ MockAtRest
  /\ SelectAtRest

NextGo ==
  \/ \E g \in Goroutines, p \in GoProviders : Lookup(g, p)
  \/ \E g \in Goroutines : Create(g)
  \/ \E g \in Goroutines : Check(g)
  \/ \E g \in Goroutines, o \in GoOutcomes : Finish(g, o)
  \/ Tick

SpecGo == InitGo /\ [][NextGo]_vars

\* ---------------------------------------------------------------------
\* SendRequest with cb.mu made visible: each breaker method is a Lock step and
\* a step that runs the body and unlocks on return; client.Do returns in a
\* step of its own

\* cb.mu.Lock() by goroutine g
Lock(m, i, g) == [m EXCEPT ![i] = g]

\* A method that returns without releasing cb.mu
UnlockForgotten(m, i) == m

\* `defer cb.mu.Unlock()`
Unlock(m, i) == [m EXCEPT ![i] = 0]

\* cb.IsOpen(): `cb.mu.Lock()`, which waits while another goroutine holds it
LockIsOpen(g) ==
  /\ gpc[g] = "check"
  /\ mu[gcb[g]] = 0
  /\ mu' = Lock(mu, gcb[g], g)
  /\ UNCHANGED <<now, goVars, offLock, orVars, pending>>

\* cb.IsOpen(): the body, and the deferred unlock as it returns
IsOpenUnlock(g) ==
  /\ gpc[g] = "check"
  /\ mu[gcb[g]] = g
  /\ IsOpenCall(g)
  /\ mu' = Unlock(mu, gcb[g])
  /\ UNCHANGED <<now, offLock, orVars, pending>>

\* `resp, err := c.client.Do(req)` and the reading of the body are over, with
\* outcome o
DoReturns(g, o) ==
  /\ gpc[g] = "http"
  /\ pending[g] = "none"
  /\ pending' = [pending EXCEPT ![g] = o]
  /\ UNCHANGED <<now, goVars, offLock, orVars, mu>>

\* cb.RecordSuccess() / cb.RecordFailure(): `cb.mu.Lock()`
LockRecord(g) ==
  /\ gpc[g] = "http"
  /\ pending[g] # "none"
  /\ mu[gcb[g]] = 0
  /\ mu' = Lock(mu, gcb[g], g)
  /\ UNCHANGED <<now, goVars, offLock, orVars, pending>>

\* cb.RecordSuccess() / cb.RecordFailure(): the body, the deferred unlock, and
\* SendRequest's return
RecordUnlock(g) ==
  /\ gpc[g] = "http"
  /\ pending[g] # "none"
  /\ mu[gcb[g]] = g
  /\ RecordCall(g, pending[g])
  /\ mu' = Unlock(mu, gcb[g])
  /\ pending' = [pending EXCEPT ![g] = "none"]
  /\ UNCHANGED <<now, offLock, orVars>>

\* SendRequest calls made so far by goroutines 1..n
RECURSIVE CallsUpTo(_)
CallsUpTo(n) == IF n = 0 THEN 0 ELSE calls[n] + CallsUpTo(n - 1)

\* A SendRequest called on its own, while there are calls left
LockLookup(g, p) ==
  /\ CallsUpTo(NumGo) < MaxLockCalls
  /\ Lookup(g, p)

\* Time passes, by more than the breakers' timeout at once
LongPause ==
  /\ now + GoTimeout + 1 <= MaxTime
  /\ now' = now + GoTimeout + 1
  /\ UNCHANGED <<tsVars, goVars, cbVars, orVars, stVars, callerVars, boVars,
                 haVars, lockVars, selVars, mockVars>>

\* A client whose breakers open at the first failure
InitLock ==
  /\ InitGo
  /\ threshold = 1

NextLock ==
  \/ \E g \in Goroutines, p \in GoProviders : LockLookup(g, p)
  \/ \E g \in Goroutines : Create(g)
  \/ \E g \in Goroutines : LockIsOpen(g)
  \/ \E g \in Goroutines : IsOpenUnlock(g)
  \/ \E g \in Goroutines, o \in GoOutcomes : DoReturns(g, o)
  \/ \E g \in Goroutines : LockRecord(g)
  \/ \E g \in Goroutines : RecordUnlock(g)
  \/ LongPause

SpecLock == InitLock /\ [][NextLock]_vars

\* Goroutine g is inside c.client.Do of SendRequest
InHTTPCall(g) == gpc[g] = "http" /\ pending[g] = "none"

\* Goroutine h is inside IsOpen, RecordSuccess or RecordFailure of breaker i
InBreakerMethod(h, i) ==
  /\ gcb[h] = i
  /\ gpc[h] = "check" \/ (gpc[h] = "http" /\ pending[h] # "none")

\* C29: while a request is inside the HTTP call of SendRequest, the mutex of
\* every breaker is free or held by another request that is inside IsOpen,
\* RecordSuccess or RecordFailure of that breaker.
C29_NoLockAcrossNetworkCall ==
  \A g \in Goroutines :
    InHTTPCall(g) =>
      \A i \in Instances :
        \/ mu[i] = 0
        \/ mu[i] # g /\ InBreakerMethod(mu[i], i)

\* C29 witness: one request is inside its HTTP call while another holds the
\* mutex of the very breaker the first one uses
C29_Witness ==
  \E g, h \in Goroutines :
    /\ g # h
    /\ InHTTPCall(g)
    /\ gcb[h] = gcb[g]
    /\ mu[gcb[g]] = h

\* ------------------------------------------- ProviderRouter, Orchestrator
\* The provider lists a configuration can give one model (config order)
EligibleLists == {<<>>, <<"openai">>, <<"openai", "anthropic">>}

\* req.PreferredProvider ("" when the caller names none)
Preferences == {"", "openai", "anthropic"}

\* The goroutines whose ExecuteRequest SpecOrch follows; the other goroutines
\* stand for the SendRequest calls of every other request in the process
Runners == {1}

InList(list, p) == \E k \in 1..Len(list) : list[k] = p

\* A SelectProvider that never looks at req.PreferredProvider
SelectProviderNoPreference(list, preferred, n, previousProvider) ==
  IF Len(list) = 0 THEN "error"
  ELSE IF n = 1 THEN list[1]
  ELSE LET other == {k \in 1..Len(list) : list[k] # previousProvider} IN
       IF other # {} THEN list[Min(other)] ELSE list[1]

\* SelectProvider: the provider returned, "error" when no provider supports
\* the model
SelectProvider(list, preferred, n, previousProvider) ==
  IF Len(list) = 0 THEN "error"
  ELSE IF n = 1
  THEN IF preferred # "" /\ InList(list, preferred) THEN preferred
       ELSE list[1]
  ELSE LET other == {k \in 1..Len(list) : list[k] # previousProvider} IN
       IF other # {} THEN list[Min(other)] ELSE list[1]

IsRetryable(err) ==
  err \in {"RetryableError", "ProviderTimeoutError", "ProviderRateLimitError"}

\* The loop head of ExecuteRequest for attempt n: SelectProvider, then
\* executeAttempt up to the first statement of SendRequest
OrchAttempt(g, preferred, n) ==
  LET provider == SelectProvider(eligible, preferred, n, lastProvider[g]) IN
  /\ attemptNumber' = [attemptNumber EXCEPT ![g] = n]
  /\ IF provider = "error"
     THEN /\ opc' = [opc EXCEPT ![g] = "failed"]
          /\ oerr' = [oerr EXCEPT ![g] = "no_provider_supports_model"]
          /\ UNCHANGED <<lastProvider, goVars>>
     ELSE /\ lastProvider' = [lastProvider EXCEPT ![g] = provider]
          /\ SendRequestBegin(g, provider)
          /\ opc' = [opc EXCEPT ![g] = "attempt"]
          /\ UNCHANGED oerr
  /\ UNCHANGED <<now, offGo, eligible, attempts>>

\* ExecuteRequest is called
OrchBegin(g, preferred) ==
  /\ opc[g] = "idle"
  /\ preferredOf' = [preferredOf EXCEPT ![g] = preferred]
  /\ OrchAttempt(g, preferred, 1)

\* executeAttempt after SendRequest has returned, then ExecuteRequest's
\* decision; transformed says whether adapter.TransformResponse succeeds
OrchReturn(g, transformed) ==
  /\ opc[g] = "attempt"
  /\ gpc[g] = "idle"
  /\ LET err == IF gret[g] # "nil" THEN gret[g]
                ELSE IF transformed THEN "nil" ELSE "response_transform_error"
     IN
     /\ attempts' = [attempts EXCEPT ![g] =
                       Append(@, [provider |-> lastProvider[g],
                                  number |-> attemptNumber[g],
                                  errorType |-> err])]
     /\ IF err = "nil"
        THEN opc' = [opc EXCEPT ![g] = "done"] /\ UNCHANGED oerr
        ELSE IF ~IsRetryable(err)
        THEN opc' = [opc EXCEPT ![g] = "failed"]
             /\ oerr' = [oerr EXCEPT ![g] = err]
        ELSE IF attemptNumber[g] >= MaxRetries
        THEN opc' = [opc EXCEPT ![g] = "failed"]
             /\ oerr' = [oerr EXCEPT ![g] = "MaxRetriesExceededError"]
        ELSE opc' = [opc EXCEPT ![g] = "waiting"] /\ UNCHANGED oerr
  /\ UNCHANGED <<now, offGo, goVars, eligible, attemptNumber, lastProvider,
                 preferredOf>>

\* The backoff wait is over: next iteration of the loop
OrchWake(g) ==
  /\ opc[g] = "waiting"
  /\ OrchAttempt(g, preferredOf[g], attemptNumber[g] + 1)
  /\ UNCHANGED preferredOf

\* A cancelled wait that is counted against the provider last tried
OrchCancelRecording(g) ==
  /\ opc[g] = "waiting"
  /\ opc' = [opc EXCEPT ![g] = "failed"]
  /\ oerr' = [oerr EXCEPT ![g] = "context_error"]
  /\ cbs' = IF gcb[g] \in Instances
            THEN [cbs EXCEPT ![gcb[g]] = RecordFailure(@, now)]
            ELSE cbs
  /\ UNCHANGED <<now, offGo, threshold, cbMap, gpc, gprov, gcb, gret, calls,
                 admitIn, lastOp, streak, eligible, attemptNumber,
                 lastProvider, attempts, preferredOf>>

\* ctx.Done() fires during the backoff wait
OrchCancel(g) ==
  /\ opc[g] = "waiting"
  /\ opc' = [opc EXCEPT ![g] = "failed"]
  /\ oerr' = [oerr EXCEPT ![g] = "context_error"]
  /\ UNCHANGED <<now, offGo, goVars, eligible, attemptNumber, lastProvider,
                 attempts, preferredOf>>

\* SpecOrch follows the requests while the breakers' clock stands still: a
\* circuit that opens stays within its timeout
InitOrch ==
  /\ now = 0
  /\ threshold \in 1..MaxThreshold
  /\ GoAtRest
  /\ TSAtRest
  /\ attemptBudget = MaxMade
  /\ CBAtRest
  /\ eligible \in EligibleLists
  /\ OrchAtRest
  /\ StreamAtRest
  /\ BackoffAtRest
  /\ HandlerAtRest
  /\ LockAtRest
  /\ MockAtRest
  /\ SelectAtRest

NextOrch ==
  \/ \E g \in Runners, preferred \in Preferences : OrchBegin(g, preferred)
  \/ \E g \in Goroutines \ Runners, p \in GoProviders : Lookup(g, p)
  \/ \E g \in Goroutines : Create(g)
  \/ \E g \in Goroutines : Check(g)
  \/ \E g \in Goroutines, o \in GoOutcomes : Finish(g, o)
  \/ \E g \in Runners, transformed \in BOOLEAN : OrchReturn(g, transformed)
  \/ \E g \in Runners : OrchWake(g)
  \/ \E g \in Runners : OrchCancel(g)

SpecOrch == InitOrch /\ [][NextOrch]_vars

\* SpecRun follows one ExecuteRequest on its own, the clock running, from
\* breakers that earlier requests have left absent, Closed or Open
BreakerLeft(kind, th) ==
  CASE kind = "closed" -> NewCircuitBreaker(th, GoTimeout)
    [] kind = "open" ->
         [NewCircuitBreaker(th, GoTimeout) EXCEPT
            !.state = "open", !.failureCount = th]
    [] OTHER -> NoBreaker

\* The Go client as earlier requests left it, no SendRequest under way
GoLeftByOthers ==
  /\ \E left0 \in [ProviderSet -> {"absent", "closed", "open"}] :
       /\ cbMap = [p \in ProviderSet |->
                     IF left0[p] = "absent" THEN Nil ELSE <<p, NumGo>>]
       /\ cbs = [i \in Instances |->
                   IF i[2] = NumGo THEN BreakerLeft(left0[i[1]], threshold)
                   ELSE NoBreaker]
  /\ gpc = [g \in Goroutines |-> "idle"]
  /\ gprov = [g \in Goroutines |-> "none"]
  /\ gcb = [g \in Goroutines |-> Nil]
  /\ gret = [g \in Goroutines |-> "none"]
  /\ calls = [g \in Goroutines |-> 0]
  /\ admitIn = [g \in Goroutines |-> "none"]
  /\ lastOp = [i \in Instances |-> NoOp]
  /\ streak = [i \in Instances |-> 0]

InitRun ==
  /\ now = 0
  /\ threshold \in 1..MaxThreshold
  /\ GoLeftByOthers
  /\ TSAtRest
  /\ attemptBudget = MaxMade
  /\ CBAtRest
  /\ eligible \in EligibleLists
  /\ OrchAtRest
  /\ StreamAtRest
  /\ BackoffAtRest
  /\ HandlerAtRest
  /\ LockAtRest
  /\ MockAtRest
  /\ SelectAtRest

NextRun ==
  \/ \E g \in Runners, preferred \in Preferences : OrchBegin(g, preferred)
  \/ \E g \in Runners : Create(g)
  \/ \E g \in Runners : Check(g)
  \/ \E g \in Runners, o \in GoOutcomes : Finish(g, o)
  \/ \E g \in Runners, transformed \in BOOLEAN : OrchReturn(g, transformed)
  \/ \E g \in Runners : OrchWake(g)
  \/ \E g \in Runners : OrchCancel(g)
  \/ Tick

SpecRun == InitRun /\ [][NextRun]_vars

\* ----------------------------------- ProviderRouter.SelectProvider alone
\* Provider p's circuit admits a caller at time t
Admits(p, t) == cbMap[p] = Nil \/ ~IsOpen(cbs[cbMap[p]], t).ret

\* modelToProvider[model] for every configuration: the providers that
\* support the model, in the order the configuration lists them
ConfigOrders ==
  {<<>>} \cup {<<p>> : p \in ProviderSet}
         \cup {<<p, q>> : <<p, q>> \in
                  {pq \in ProviderSet \X ProviderSet : pq[1] # pq[2]}}

\* The priorities a configuration can give the providers
Ranks == 1..Len(Providers)

\* One call of SelectProvider, noted with what the circuits said then
Select(preferred, n, previousProvider) ==
  /\ picked' = [ret |-> SelectProvider(eligible, preferred, n,
                                        previousProvider),
                 preferred |-> preferred, n |-> n,
                 previousProvider |-> previousProvider,
                 admitting |-> {p \in ProviderSet : Admits(p, now)}]
  /\ UNCHANGED <<now, tsVars, goVars, cbVars, orVars, stVars, callerVars,
                 boVars, haVars, lockVars, mockVars, rank>>

InitSelect ==
  /\ now = 0
  /\ threshold = 1
  /\ GoLeftByOthers
  /\ TSAtRest
  /\ attemptBudget = MaxMade
  /\ CBAtRest
  /\ eligible \in ConfigOrders
  /\ OrchAtRest
  /\ StreamAtRest
  /\ BackoffAtRest
  /\ HandlerAtRest
  /\ LockAtRest
  /\ MockAtRest
  /\ rank \in [ProviderSet -> Ranks]
  /\ picked = NoPick

NextSelect ==
  \/ \E preferred \in Preferences, n \in 1..MaxRetries,
        previousProvider \in ProviderSet \cup {""} :
          Select(preferred, n, previousProvider)
  \/ Tick

SpecSelect == InitSelect /\ [][NextSelect]_vars

\* The providers the latest call may not return: on a retry, the provider
\* that has just failed
Excluded == IF picked.n > 1 THEN {picked.previousProvider} ELSE {}

\* The positions in the configuration of the providers that support the
\* model, were not excluded and whose circuit admitted at the latest call
Candidates ==
  {k \in 1..Len(eligible) :
     eligible[k] \in picked.admitting \ Excluded}

\* The candidate of lowest rank number, the first in configuration order
\* among equals
BestCandidate ==
  eligible[CHOOSE k \in Candidates :
             \A j \in Candidates :
               \/ rank[eligible[k]] < rank[eligible[j]]
               \/ rank[eligible[k]] = rank[eligible[j]] /\ k <= j]

\* C32: a call of SelectProvider that names no preferred provider returns
\* the best candidate when there is one, and never a provider whose circuit
\* rejects.
C32_SelectsBestAdmitted ==
  (picked # NoPick /\ picked.preferred = "")
    => /\ Candidates # {} => picked.ret = BestCandidate
       /\ picked.ret \in ProviderSet => picked.ret \in picked.admitting

\* ------------------------------------- the breaker classes, call by call
\* Both classes are plain objects shared by every request: any of their
\* methods may be the next one called, at any time.
AtRestGo(cb) == cb.state = "closed" /\ cb.failureCount = 0

\* Note a method call `op` on the breaker of class k: whether it admitted
\* (checks only), the state and count it found, whether it left the breaker
\* Closed with count 0, and the threshold th the breaker was made with
Observe(k, op, admitted, preState, preCount, atRest, th) ==
  LET r == CASE op = "failure" -> IF run[k] >= 0 THEN run[k] + 1 ELSE -1
             [] op = "success" -> IF atRest THEN 0 ELSE -1
             [] OTHER -> IF atRest THEN 0 ELSE run[k] IN
  /\ ops < MaxOps
  /\ ops' = ops + 1
  /\ run' = [run EXCEPT ![k] = r]
  /\ tripAt' = [tripAt EXCEPT ![k] =
                  IF op = "failure" /\ r = th THEN now ELSE @]
  /\ last' = [last EXCEPT ![k] =
                [op |-> op, admitted |-> admitted, pre |-> preState,
                 preCount |-> preCount, at |-> now]]

\* Note, for the breaker of class k, when it last went from not Open to Open,
\* how many outcomes were recorded on it since (2 stands for 2 or more), and
\* whether a check has admitted a caller since
Recover(k, op, admitted, preState, postState) ==
  LET opens == op = "failure" /\ preState # "open" /\ postState = "open" IN
  /\ openSince' = [openSince EXCEPT ![k] = IF opens THEN now ELSE @]
  /\ outcomesSince' = [outcomesSince EXCEPT ![k] =
         CASE opens -> 0
           [] op \in {"success", "failure"} /\ @ < 2 -> @ + 1
           [] OTHER -> @]
  /\ admitAfter' = [admitAfter EXCEPT ![k] =
         CASE opens -> FALSE
           [] op = "check" /\ admitted -> TRUE
           [] OTHER -> @]

DriveCanExecute ==
  LET res == CanExecute(tsb, now) IN
  /\ tsb' = res.cb
  /\ Observe("ts", "check", res.ret, tsb.state, tsb.consecutiveFails,
             AtRestTS(res.cb), tsb.failureThreshold)
  /\ Recover("ts", "check", res.ret, tsb.state, res.cb.state)
  /\ UNCHANGED <<now, offCB, gob, probeFailAt>>

DriveRecordSuccessTS ==
  /\ tsb' = RecordSuccessTS(tsb)
  /\ Observe("ts", "success", FALSE, tsb.state, tsb.consecutiveFails,
             AtRestTS(tsb'), tsb.failureThreshold)
  /\ Recover("ts", "success", FALSE, tsb.state, tsb'.state)
  /\ UNCHANGED <<now, offCB, gob, probeFailAt>>

DriveRecordFailureTS ==
  /\ tsb' = RecordFailureTS(tsb, now)
  /\ Observe("ts", "failure", FALSE, tsb.state, tsb.consecutiveFails,
             AtRestTS(tsb'), tsb.failureThreshold)
  /\ Recover("ts", "failure", FALSE, tsb.state, tsb'.state)
  /\ UNCHANGED <<now, offCB, gob, probeFailAt>>

\* The caller is admitted when IsOpen() returns false
DriveIsOpen ==
  LET res == IsOpen(gob, now) IN
  /\ gob' = res.cb
  /\ Observe("go", "check", ~res.ret, gob.state, gob.failureCount,
             AtRestGo(res.cb), gob.threshold)
  /\ Recover("go", "check", ~res.ret, gob.state, res.cb.state)
  /\ UNCHANGED <<now, offCB, tsb, probeFailAt>>

DriveRecordSuccess ==
  /\ gob' = RecordSuccess(gob)
  /\ Observe("go", "success", FALSE, gob.state, gob.failureCount,
             AtRestGo(gob'), gob.threshold)
  /\ Recover("go", "success", FALSE, gob.state, gob'.state)
  /\ UNCHANGED <<now, offCB, tsb, probeFailAt>>

DriveRecordFailure ==
  /\ gob' = RecordFailure(gob, now)
  /\ Observe("go", "failure", FALSE, gob.state, gob.failureCount,
             AtRestGo(gob'), gob.threshold)
  /\ Recover("go", "failure", FALSE, gob.state, gob'.state)
  /\ probeFailAt' = IF gob.state = "half_open" THEN now ELSE probeFailAt
  /\ UNCHANGED <<now, offCB, tsb>>

\* Both breakers are made with the same threshold and reset timeout
InitCB ==
  /\ now = 0
  /\ threshold \in 1..MaxThreshold
  /\ GoAtRest
  /\ TSAtRest
  /\ attemptBudget = MaxMade
  /\ \E to \in 1..MaxReset :
       /\ tsb = NewBreakerTS(threshold, to)
       /\ gob = NewCircuitBreaker(threshold, to)
  /\ CBObsAtRest
  /\ eligible = <<>>
  /\ OrchAtRest
  /\ StreamAtRest
  /\ BackoffAtRest
  /\ HandlerAtRest
  /\ LockAtRest
  /\ MockAtRest
  /\ SelectAtRest

NextCB ==
  \/ DriveCanExecute
  \/ DriveRecordSuccessTS
  \/ DriveRecordFailureTS
  \/ DriveIsOpen
  \/ DriveRecordSuccess
  \/ DriveRecordFailure
  \/ Tick

SpecCB == InitCB /\ [][NextCB]_vars

\* ------------------------------------------------- StreamingProviderClient
\* Strings are sequences of characters; these are the content deltas a
\* provider sends
Contents == {<<"a">>, <<"b">>}

\* A complete line of the SSE body, by what the read loop makes of it: a
\* `data: ` line whose JSON carries a non-empty delta.content, one whose JSON
\* carries none, a line that does not start with `data: `, `data: [DONE]`,
\* and a `data: ` line on which JSON.parse (or the property access) throws
Lines ==
  {[kind |-> "content", content |-> c] : c \in Contents}
    \cup {[kind |-> k] : k \in {"empty", "other", "done", "bad"}}

\* The complete lines one reader.read() can bring after buffer.split('\n');
\* none when the bytes read end no line
ReadValues == UNION {[1..n -> Lines] : n \in 0..MaxLines}

\* How fetch can return
FetchOutcomes == {"ok", "status_error", "no_body", "network_error"}

StallMessage == "Stream stalled - chunk timeout"
MalformedMessage == "Malformed chunk"

\* The handler's callbacks, by what they write to res
OnChunk(content) == [kind |-> "chunk", content |-> content]
OnDone == [kind |-> "done"]
OnError(message, partial) ==
  [kind |-> "error", message |-> message, partial |-> partial]

\* A partialContent that keeps only the latest delta
AccumulateLatest(partial, content) == content

\* A partialContent built back to front
AccumulateFront(partial, content) == content \o partial

\* `partialContent += content`
Accumulate(partial, content) == partial \o content

\* The `for (const line of lines)` loop from line i on: partialContent and the
\* writes made when it is left, and how it is left ("none": fell through)
RECURSIVE ProcessLines(_, _, _, _)
ProcessLines(lines, i, partial, written) ==
  IF i > Len(lines)
  THEN [partial |-> partial, out |-> written, end |-> "none"]
  ELSE LET l == lines[i] IN
       CASE l.kind = "done" ->
              [partial |-> partial, out |-> Append(written, OnDone),
               end |-> "done"]
         [] l.kind = "bad" ->
              [partial |-> partial,
               out |-> Append(written, OnError(MalformedMessage, partial)),
               end |-> "malformed"]
         [] l.kind = "content" ->
              ProcessLines(lines, i + 1, Accumulate(partial, l.content),
                           Append(written, OnChunk(l.content)))
         [] OTHER -> ProcessLines(lines, i + 1, partial, written)

\* The chunk timer has been due for some time: its callback runs before
\* anything that arrives now
Overdue == timerAt >= 0 /\ now - timerAt > ChunkTimeout

\* The handler is called: headers are flushed and streamRequest calls fetch
StreamStart ==
  /\ spc = "idle"
  /\ spc' = "fetch"
  /\ fetches' = fetches + 1
  /\ UNCHANGED <<now, offStream, partialContent, out, aborted, timerAt,
                 sentinel, reads>>

\* fetch returns: the body is read under the chunk timer, or the throw is
\* caught and reported
FetchReturn(res) ==
  /\ spc = "fetch"
  /\ IF res = "ok"
     THEN /\ spc' = "read"
          /\ timerAt' = now
          /\ UNCHANGED out
     ELSE /\ spc' = "ended"
          /\ out' = Append(out, OnError(res, partialContent))
          /\ UNCHANGED timerAt
  /\ UNCHANGED <<now, offStream, partialContent, aborted, fetches, sentinel,
                 reads>>

\* reader.read() brings bytes: the timer is re-armed and the complete lines
\* are processed in order
ReadBody(lines) ==
  /\ spc = "read"
  /\ ~Overdue
  /\ reads' = reads + 1
  /\ LET res == ProcessLines(lines, 1, partialContent, out) IN
     /\ partialContent' = res.partial
     /\ out' = res.out
     /\ sentinel' = (sentinel \/ res.end = "done")
     /\ IF res.end = "none"
        THEN /\ spc' = "read"
             /\ timerAt' = now
        ELSE /\ spc' = "ended"
             /\ timerAt' = -1
  /\ UNCHANGED <<aborted, fetches>>

\* A read of an upstream that may send anything, while reads are left
ReadValue(lines) ==
  /\ reads < MaxReads
  /\ ReadBody(lines)
  /\ UNCHANGED <<now, offStream>>

\* reader.read() reports done: the upstream closed the body
ReadDone ==
  /\ spc = "read"
  /\ ~Overdue
  /\ spc' = "ended"
  /\ timerAt' = -1
  /\ out' = Append(out, OnDone)
  /\ UNCHANGED <<now, offStream, partialContent, aborted, fetches, sentinel,
                 reads>>

\* reader.read() rejects (connection reset): caught, not an AbortError
ReadError ==
  /\ spc = "read"
  /\ ~Overdue
  /\ spc' = "ended"
  /\ timerAt' = -1
  /\ out' = Append(out, OnError("network_error", partialContent))
  /\ UNCHANGED <<now, offStream, partialContent, aborted, fetches, sentinel,
                 reads>>

\* The chunk timer's callback: abort the fetch, report the stall
TimerFire ==
  /\ spc = "read"
  /\ timerAt >= 0
  /\ now - timerAt >= ChunkTimeout
  /\ aborted' = TRUE
  /\ out' = Append(out, OnError(StallMessage, partialContent))
  /\ timerAt' = -1
  /\ spc' = "aborting"
  /\ UNCHANGED <<now, offStream, partialContent, fetches, sentinel, reads>>

\* A catch block that reports the AbortError like any other error
AbortCaughtReported ==
  /\ spc = "aborting"
  /\ spc' = "ended"
  /\ out' = Append(out, OnError("aborted", partialContent))
  /\ UNCHANGED <<now, offStream, partialContent, aborted, timerAt, fetches,
                 sentinel, reads>>

\* The pending read rejects with AbortError: caught, nothing more reported
AbortCaught ==
  /\ spc = "aborting"
  /\ spc' = "ended"
  /\ UNCHANGED <<now, offStream, partialContent, out, aborted, timerAt,
                 fetches, sentinel, reads>>

\* The caller closes its connection while the stream is under way: the
\* handler has registered no listener on req or res and never looks at what
\* res.write returns, so nothing of streamRequest changes
CallerGone ==
  /\ spc \in {"fetch", "read"}
  /\ goneAt = -1
  /\ goneAt' = Len(out)
  /\ UNCHANGED <<now, tsVars, goVars, cbVars, orVars, stVars, boVars, haVars,
                 lockVars, selVars, mockVars>>

InitStream ==
  /\ now = 0
  /\ threshold = 1
  /\ GoAtRest
  /\ TSAtRest
  /\ attemptBudget = MaxMade
  /\ CBAtRest
  /\ eligible = <<>>
  /\ OrchAtRest
  /\ StreamAtRest
  /\ BackoffAtRest
  /\ HandlerAtRest
  /\ LockAtRest
  /\ MockAtRest
  /\ SelectAtRest

NextStream ==
  \/ StreamStart
  \/ \E res \in FetchOutcomes : FetchReturn(res)
  \/ \E lines \in ReadValues : ReadValue(lines)
  \/ ReadDone
  \/ ReadError
  \/ TimerFire
  \/ AbortCaught
  \/ Tick

SpecStream == InitStream /\ [][NextStream]_vars

\* The same handler with a caller who may disconnect while it streams
NextGone ==
  \/ NextStream
  \/ CallerGone

SpecGone == InitStream /\ [][NextGone]_vars

\* ------------------------------------------ the mock provider, end to end
\* `chunks` of handleStreaming
MockChunks ==
  <<"Hello", " from", " the", " streaming", " mock", " provider", "!">>

\* The fail_chunk a caller can put in its query string: none, or a number
FailChunks ==
  {[present |-> FALSE]}
    \cup {[present |-> TRUE, n |-> k] : k \in 0..Len(MockChunks)}

\* `failChunk` of handleChatCompletion: -1 unless the query names one
ParseFailChunk(q) == IF q.present THEN q.n ELSE -1

\* The query string of the request that reaches the mock: the caller's own
\* when it posts to the mock itself; none when streamRequest's fetch does,
\* which posts to `${url}/v1/chat/completions` with `stream: true` in the
\* JSON body only
QuerySent ==
  IF direct THEN [stream |-> "true", failChunk |-> askFail] ELSE NoQuery

\* Bytes that end no line (c.JSON writes the object with no newline after it)
Unterminated == [kind |-> "unterminated"]

\* The empty line that `\n\n` leaves after a data line
BlankLine == [kind |-> "other"]

\* handleChatCompletion: read the query string, then stream or not
MockHandle ==
  /\ mpc = "idle"
  /\ direct \/ spc = "fetch"
  /\ mq' = QuerySent
  /\ mpc' = IF QuerySent.stream = "true" THEN "streaming" ELSE "normal"
  /\ UNCHANGED <<now, tsVars, goVars, cbVars, orVars, stVars, callerVars,
                 boVars, haVars, lockVars, selVars, direct, askFail, mchunk,
                 wire, taken>>

\* handleNormalResponse: one JSON object, status 200
MockNormal ==
  /\ mpc = "normal"
  /\ wire' = Append(wire, Unterminated)
  /\ mpc' = "closed"
  /\ UNCHANGED <<now, tsVars, goVars, cbVars, orVars, stVars, callerVars,
                 boVars, haVars, lockVars, selVars, direct, askFail, mq,
                 mchunk, taken>>

\* handleStreaming: one turn of `for i, chunk := range chunks`
MockChunk ==
  /\ mpc = "streaming"
  /\ mchunk <= Len(MockChunks)
  /\ LET failChunk == ParseFailChunk(mq.failChunk) IN
     IF failChunk > 0 /\ mchunk = failChunk
     THEN /\ wire' = wire \o <<[kind |-> "bad"], BlankLine>>
          /\ mpc' = "closed"
          /\ UNCHANGED mchunk
     ELSE /\ wire' = wire \o <<[kind |-> "content",
                                 content |-> <<MockChunks[mchunk]>>],
                                BlankLine>>
          /\ mchunk' = mchunk + 1
          /\ UNCHANGED mpc
  /\ UNCHANGED <<now, tsVars, goVars, cbVars, orVars, stVars, callerVars,
                 boVars, haVars, lockVars, selVars, direct, askFail, mq,
                 taken>>

\* handleStreaming after the loop: the finish_reason chunk and [DONE]
MockFinal ==
  /\ mpc = "streaming"
  /\ mchunk > Len(MockChunks)
  /\ wire' = wire \o <<[kind |-> "empty"], BlankLine,
                        [kind |-> "done"], BlankLine>>
  /\ mpc' = "closed"
  /\ UNCHANGED <<now, tsVars, goVars, cbVars, orVars, stVars, callerVars,
                 boVars, haVars, lockVars, selVars, direct, askFail, mq,
                 mchunk, taken>>

\* The caller posts a streaming request to the gateway
GwStart ==
  /\ ~direct
  /\ StreamStart

\* The gateway's fetch returns once the mock has sent its status line
GwFetchReturn ==
  /\ ~direct
  /\ wire # <<>>
  /\ FetchReturn("ok")

\* reader.read() brings the next k pieces of the body; what ends no line
\* stays in `buffer`
GwRead(k) ==
  /\ ~direct
  /\ k \in 1..(Len(wire) - taken)
  /\ ReadBody(SelectSeq(SubSeq(wire, taken + 1, taken + k),
                        LAMBDA l : l.kind # "unterminated"))
  /\ taken' = taken + k
  /\ UNCHANGED <<now, tsVars, goVars, cbVars, orVars, callerVars, boVars,
                 haVars, lockVars, selVars, direct, askFail, mq, mpc, mchunk,
                 wire>>

\* reader.read() reports done once the mock has closed and all was read
GwReadDone ==
  /\ ~direct
  /\ mpc = "closed"
  /\ taken = Len(wire)
  /\ ReadDone

\* The mock sleeps 100 ms after each chunk, 700 ms in all, against a
\* chunkTimeout of 10000 ms: the clock, which counts in chunk timeouts,
\* stands still and the chunk timer never fires
InitMock ==
  /\ now = 0
  /\ threshold = 1
  /\ GoAtRest
  /\ TSAtRest
  /\ attemptBudget = MaxMade
  /\ CBAtRest
  /\ eligible = <<>>
  /\ OrchAtRest
  /\ StreamAtRest
  /\ BackoffAtRest
  /\ HandlerAtRest
  /\ LockAtRest
  /\ SelectAtRest
  /\ direct \in BOOLEAN
  /\ askFail \in FailChunks
  /\ mq = NoQuery
  /\ mpc = "idle"
  /\ mchunk = 1
  /\ wire = <<>>
  /\ taken = 0

NextMock ==
  \/ MockHandle
  \/ MockNormal
  \/ MockChunk
  \/ MockFinal
  \/ GwStart
  \/ GwFetchReturn
  \/ \E k \in 1..MaxLines : GwRead(k)
  \/ GwReadDone

SpecMock == InitMock /\ [][NextMock]_vars

\* ------------------------------------------------------- calculateBackoff
\* Values given to retryConfig.baseDelay and retryConfig.maxDelay, the
\* defaults among them
BaseDelays == {1, 7, 1000}
MaxDelays == {10, 10000}

\* Math.pow(2, n)
RECURSIVE Pow2(_)
Pow2(n) == IF n = 0 THEN 1 ELSE 2 * Pow2(n - 1)

\* A `wait` that doubles once too often
PreJitterLate(n, base, max) == Min({base * Pow2(n), max})

\* calculateBackoff: `wait` before the jitter is applied
PreJitter(n, base, max) == Min({base * Pow2(n - 1), max})

\* calculateBackoff with Math.random() = i / RandomSteps:
\* Math.floor(wait * (1.0 + (random * 0.4 - 0.2)))
CalculateBackoff(n, base, max, i) ==
  (PreJitter(n, base, max) * (8 * RandomSteps + 4 * i))
    \div (10 * RandomSteps)

\* callWithRetry computes the wait that follows the failed attempt bAttempt + 1
Backoff(i) ==
  /\ bAttempt < MaxRetryNo
  /\ bAttempt' = bAttempt + 1
  /\ bWait' = PreJitter(bAttempt + 1, bBase, bMax)
  /\ bActual' = CalculateBackoff(bAttempt + 1, bBase, bMax, i)
  /\ UNCHANGED <<now, tsVars, goVars, cbVars, orVars, stVars, callerVars,
                 haVars, lockVars, selVars, mockVars,
                 bBase, bMax>>

InitBackoff ==
  /\ now = 0
  /\ threshold = 1
  /\ GoAtRest
  /\ TSAtRest
  /\ attemptBudget = MaxMade
  /\ CBAtRest
  /\ eligible = <<>>
  /\ OrchAtRest
  /\ StreamAtRest
  /\ bBase \in BaseDelays
  /\ bMax \in MaxDelays
  /\ bAttempt = 0
  /\ bWait = 0
  /\ bActual = 0
  /\ HandlerAtRest
  /\ LockAtRest
  /\ MockAtRest
  /\ SelectAtRest

NextBackoff == \E i \in 0..(RandomSteps - 1) : Backoff(i)

SpecBackoff == InitBackoff /\ [][NextBackoff]_vars

\* -------------------------------------------------- Handler.ChatCompletion
\* A validation step that only answers 400 for a *ValidationErrors
RejectsTypedOnly(body) == body.kind = "invalid_typed"

\* `if err := validator.ValidateRequest(&req); err != nil`: both branches
\* answer 400 and return
Rejects(body) == body.kind \in {"invalid_typed", "invalid_other"}

\* c.ShouldBindJSON(&req)
HandlerParse(h, body) ==
  /\ hpc[h] = "idle"
  /\ hbody' = [hbody EXCEPT ![h] = body]
  /\ IF body.kind = "unparseable"
     THEN /\ hstatus' = [hstatus EXCEPT ![h] = 400]
          /\ hpc' = [hpc EXCEPT ![h] = "returned"]
     ELSE /\ hpc' = [hpc EXCEPT ![h] = "parsed"]
          /\ UNCHANGED hstatus
  /\ UNCHANGED <<offHandler, hcalled, hstreamed>>

\* ValidateRequest, then the provider call the `stream` flag selects
HandlerValidate(h) ==
  /\ hpc[h] = "parsed"
  /\ IF Rejects(hbody[h])
     THEN /\ hstatus' = [hstatus EXCEPT ![h] = 400]
          /\ hpc' = [hpc EXCEPT ![h] = "returned"]
          /\ UNCHANGED <<hcalled, hstreamed>>
     ELSE IF hbody[h].stream
     THEN /\ hstreamed' = [hstreamed EXCEPT ![h] = @ + 1]
          /\ hpc' = [hpc EXCEPT ![h] = "in_stream"]
          /\ UNCHANGED <<hcalled, hstatus>>
     ELSE /\ hcalled' = [hcalled EXCEPT ![h] = @ + 1]
          /\ hpc' = [hpc EXCEPT ![h] = "in_call"]
          /\ UNCHANGED <<hstreamed, hstatus>>
  /\ UNCHANGED <<offHandler, hbody>>

\* handleNonStreamingRequest: providerClient.Call has returned
HandlerCallReturns(h, ok) ==
  /\ hpc[h] = "in_call"
  /\ hstatus' = [hstatus EXCEPT ![h] = IF ok THEN 200 ELSE 502]
  /\ hpc' = [hpc EXCEPT ![h] = "returned"]
  /\ UNCHANGED <<offHandler, hbody, hcalled, hstreamed>>

\* handleStreamingRequest: providerClient.CallStream has returned; nothing
\* is written by the handler either way
HandlerStreamReturns(h, ok) ==
  /\ hpc[h] = "in_stream"
  /\ hpc' = [hpc EXCEPT ![h] = IF ok THEN "stream_complete" ELSE "stream_error"]
  /\ UNCHANGED <<offHandler, hbody, hstatus, hcalled, hstreamed>>

InitHandler ==
  /\ now = 0
  /\ threshold = 1
  /\ GoAtRest
  /\ TSAtRest
  /\ attemptBudget = MaxMade
  /\ CBAtRest
  /\ eligible = <<>>
  /\ OrchAtRest
  /\ StreamAtRest
  /\ BackoffAtRest
  /\ HandlerAtRest
  /\ LockAtRest
  /\ MockAtRest
  /\ SelectAtRest

NextHandler ==
  \/ \E h \in Inbound, body \in Bodies : HandlerParse(h, body)
  \/ \E h \in Inbound : HandlerValidate(h)
  \/ \E h \in Inbound, ok \in BOOLEAN : HandlerCallReturns(h, ok)
  \/ \E h \in Inbound, ok \in BOOLEAN : HandlerStreamReturns(h, ok)

SpecHandler == InitHandler /\ [][NextHandler]_vars

\* ===================================================== claims on SpecTS

\* C1: a provider whose circuit is open (reset interval not elapsed)
\* receives no new attempt: no doRequest of any request, whatever its attempt
\* number, begins on such a circuit.
C1_NoAttemptOnOpenCircuit ==
  \A r \in Reqs : pc[r] = "inflight" => ~startedOpen[r]

\* The other providers whose canExecute() would return true right now
EligibleOthers(r) ==
  {q \in ProviderSet \ {cur[r]} : CanExecute(circuit[q], now).ret}

\* Providers on which the request has given up (call()'s catch block ran once
\* for each, adding maxAttempts to totalAttempts)
ProvidersLeft(r) == totalAttempts[r] \div MaxAttempts

\* C7: a request that used all maxAttempts on a provider with timeouts / 5xx
\* only, while another provider was eligible, does not fail: it moves on to
\* that provider.
C7_ExhaustionFailsOver ==
  \A r \in Reqs :
    ~(pc[r] = "failed" /\ lastError[r] = "exhausted" /\ softOnly[r]
      /\ alt[r] # {})

\* C8: a 429 never leads to a backoff wait, and with another provider
\* eligible the step after it starts attempt 1 on that provider, without any
\* further attempt on the rate-limited one and without a wait.
C8_RateLimitStep(r) ==
  /\ (pc[r] = "inflight" /\ pc'[r] \notin {"inflight", "done"}
        /\ lastError'[r] = "rate_limit")
     => (pc'[r] = "thrown" /\ waits'[r] = waits[r] /\ made'[r] = made[r])
  /\ (pc[r] = "thrown" /\ lastError[r] = "rate_limit" /\ pc'[r] # "thrown"
        /\ EligibleOthers(r) # {})
     => (/\ pc'[r] = "inflight"
         /\ cur'[r] \in EligibleOthers(r)
         /\ attempt'[r] = 1
         /\ made'[r] = made[r] + 1
         /\ waits'[r] = waits[r])

C8_RateLimitFailsOverAtOnce ==
  /\ [](\A r \in Reqs : pc[r] = "sleeping" => lastError[r] # "rate_limit")
  /\ [][\A r \in Reqs : C8_RateLimitStep(r)]_vars

\* C8 witness: attempt 1 on anthropic right after a 429 on openai, the
\* request's only other attempt, with no wait
C8_Witness ==
  \E r \in Reqs :
    /\ pc[r] = "inflight" /\ cur[r] = "anthropic" /\ attempt[r] = 1
    /\ lastError[r] = "rate_limit" /\ made[r] = 2 /\ waits[r] = 0

\* C9: the attempts figure a successful call reports is the number of
\* attempts it made, over all providers it tried.
C9_ReportedEqualsMade ==
  \A r \in Reqs : pc[r] = "done" => reported[r] = made[r]

\* C10 as stated: a request that ends on a client fault has made exactly one
\* attempt, waited no backoff and tried one provider only.
C10_ClientFaultOneAttempt ==
  \A r \in Reqs :
    (pc[r] = "failed" /\ lastError[r] = "client_error")
      => (made[r] = 1 /\ waits[r] = 0 /\ ProvidersLeft(r) = 1)

\* C10 amended: the attempt that meets a client fault is the request's last:
\* from the fault on the request makes no attempt, waits no backoff, changes
\* to no other provider and fails; met without a retry or failover before
\* it, exactly one attempt has been made.
C10_ClientFaultStep(r) ==
  (lastError'[r] = "client_error" /\ pc'[r] # pc[r])
    => (/\ pc'[r] \in {"thrown", "failed"}
        /\ made'[r] = made[r]
        /\ waits'[r] = waits[r]
        /\ cur'[r] = cur[r])

C10_ClientFaultAbortsAtOnce ==
  /\ [](\A r \in Reqs :
          lastError[r] = "client_error"
            => (/\ pc[r] \in {"thrown", "failed"}
                /\ (waits[r] = 0 /\ ProvidersLeft(r) <= 1 /\ pc[r] = "failed")
                     => made[r] = 1))
  /\ [][\A r \in Reqs : C10_ClientFaultStep(r)]_vars

\* C10 witness: failed on a client fault after one attempt and no wait, while
\* the other provider was eligible
C10_Witness ==
  \E r \in Reqs :
    /\ pc[r] = "failed" /\ lastError[r] = "client_error"
    /\ made[r] = 1 /\ waits[r] = 0 /\ alt[r] # {}

\* C13: no wraparound: a request is never in an attempt on a provider its
\* call() has given up on earlier.
C13_NoWraparound ==
  \A r \in Reqs : pc[r] = "inflight" => cur[r] \notin left[r]

\* C14: the attempts one request makes never exceed maxAttempts on each
\* provider, each provider once.
C14_AttemptsCapped ==
  \A r \in Reqs : made[r] <= MaxAttempts * Len(Providers)

\* The step in which request r's attempt ends and callWithRetry decides
AttemptEnds(r) == pc[r] = "inflight" /\ pc'[r] # "inflight"

\* C28: when an attempt ends, its outcome has been recorded once on the
\* breaker of the provider attempted, and on no other, by the time the
\* decision is taken: a failure, whatever its class (retried, failed over or
\* aborting), leaves one more consecutive failure dated now; a success leaves
\* the count at 0.
C28_RecordedOnceBeforeDecision ==
  [][\A r \in Reqs :
       AttemptEnds(r) =>
         /\ \A q \in ProviderSet \ {cur[r]} : circuit'[q] = circuit[q]
         /\ pc'[r] = "done" => circuit'[cur[r]].consecutiveFails = 0
         /\ pc'[r] \in {"sleeping", "thrown"} =>
              /\ circuit'[cur[r]].consecutiveFails
                   = circuit[cur[r]].consecutiveFails + 1
              /\ circuit'[cur[r]].lastFailure = now]_vars

\* C28 witness: a request has retried after a 5xx, then met a client fault
\* that aborts it; both failures are on the provider's breaker
C28_Witness ==
  \E r \in Reqs :
    /\ pc[r] = "thrown" /\ lastError[r] = "client_error"
    /\ made[r] = 2 /\ waits[r] = 1
    /\ circuit[cur[r]].consecutiveFails = 2

\* Provider p has returned threshold server faults in a row and its reset
\* interval, counted from the last of them, has not elapsed
TrippedByFaults(p) ==
  srvTripAt[p] >= 0 /\ now - srvTripAt[p] < circuit[p].resetTimeout

\* A call() that begins while p is tripped makes no attempt on p, and goes
\* straight to the other provider when that one admits
C15_CallStep(r, p) ==
  (pc[r] = "idle" /\ pc'[r] # "idle" /\ TrippedByFaults(p))
    => /\ pc'[r] = "inflight" => cur'[r] # p
       /\ (\E q \in ProviderSet \ {p} : CanExecute(circuit[q], now).ret)
            => (pc'[r] = "inflight" /\ made'[r] = 1)

\* C15: once provider A has returned threshold (3) server faults in a row,
\* A's circuit is open, and a request that arrives before the reset timeout
\* is routed to provider B without any attempt on A.
C15_OpenCircuitRoutesToNext ==
  /\ [](\A p \in ProviderSet :
          TrippedByFaults(p) => circuit[p].state = "open")
  /\ [][\A r \in Reqs, p \in ProviderSet : C15_CallStep(r, p)]_vars

\* C15 witness: openai tripped by server faults, and a request in its first
\* and only attempt, on anthropic
C15_Witness ==
  /\ TrippedByFaults("openai") /\ srvRun["openai"] = FailureThreshold
  /\ \E r \in Reqs :
       /\ pc[r] = "inflight" /\ cur[r] = "anthropic"
       /\ made[r] = 1 /\ totalAttempts[r] = 0 /\ lastError[r] = "none"

\* C23: the control flow follows the class of the attempt's outcome: only a
\* timeout, a network error or a 5xx is followed by a backoff wait and a
\* retry on the same provider; a 429, any other 4xx and an unparseable
\* success body never are.
C23_ControlFollowsClass ==
  \A r \in Reqs :
    pc[r] = "sleeping" => lastError[r] \in {"timeout", "network", "server_error"}

\* C37: whenever a provider's two-state breaker is open, its count of
\* consecutive failures is at least failureThreshold, whatever the concurrent
\* requests interleave on it.
C37_OpenCountAtThreshold ==
  \A p \in ProviderSet :
    circuit[p].state = "open"
      => circuit[p].consecutiveFails >= circuit[p].failureThreshold

\* ===================================================== claims on SpecGo

\* The SendRequest calls inside their HTTP exchange that IsOpen let through
\* on breaker i as HalfOpen attempts: the one that moved it Open -> HalfOpen
\* and those that found it HalfOpen
HalfOpenAttempts(i) ==
  {g \in Goroutines :
     gpc[g] = "http" /\ gcb[g] = i /\ admitIn[g] \in {"probe", "half_open"}}

\* C2: single-probe admission: at most one HalfOpen attempt of a breaker is
\* outstanding at a time, every other caller being rejected while the probe
\* is out.
C2_SingleProbe ==
  \A i \in Instances : Cardinality(HalfOpenAttempts(i)) <= 1

\* C4: a Closed breaker opens only when the last `threshold` recorded
\* outcomes are all failures (RecordSuccess having reset the count).
C4_OpensOnlyAfterThresholdInARow ==
  \A i \in Instances :
    (lastOp[i].op = "failure" /\ lastOp[i].pre = "closed"
       /\ cbs[i].state = "open")
      => streak[i] >= cbs[i].threshold

\* C17: a provider call that ends because the caller cancelled records no
\* failure on the provider's breaker: no RecordFailure is made by a
\* SendRequest whose client.Do was ended by the caller's cancellation.
C17_CallerCancelNotRecorded ==
  \A i \in Instances :
    lastOp[i].op = "failure" => ~lastOp[i].canceled

\* C27: concurrent SendRequest calls for one provider all use one
\* CircuitBreaker: no two instances are ever made for the same provider.
C27_OneBreakerPerProvider ==
  \A p \in ProviderSet :
    Cardinality({i \in Instances : i[1] = p /\ cbs[i] # NoBreaker}) <= 1

\* ===================================================== claims on SpecCB

\* The reset timeout the breaker of class k was made with
TimeoutOf(k) == IF k = "ts" THEN tsb.resetTimeout ELSE gob.timeout

\* C3: once N = threshold failures in a row have been recorded on a breaker
\* that was Closed with count 0, every admission check (canExecute / !IsOpen)
\* made before the reset timeout has elapsed since the N-th failure refuses.
C3_RejectsAfterThresholdFailures ==
  \A k \in Kinds :
    (last[k].op = "check" /\ tripAt[k] >= 0
       /\ last[k].at - tripAt[k] < TimeoutOf(k))
      => ~last[k].admitted

\* C3 witness: on both breakers, threshold 2 or more, the latest call is a
\* check refused one tick after the N-th failure in a row
C3_Witness ==
  /\ threshold >= 2
  /\ \A k \in Kinds :
       /\ last[k].op = "check" /\ ~last[k].admitted
       /\ tripAt[k] >= 0 /\ last[k].at - tripAt[k] = 1
       /\ run[k] = threshold

\* C5: one success recorded while HalfOpen leaves the breaker Closed with
\* failure count 0, whatever the count was.
C5_HalfOpenSuccessCloses ==
  (last["go"].op = "success" /\ last["go"].pre = "half_open")
    => (gob.state = "closed" /\ gob.failureCount = 0)

\* C5 witness: a success was just recorded on a HalfOpen breaker whose
\* failure count was 2 or more
C5_Witness ==
  /\ last["go"].op = "success" /\ last["go"].pre = "half_open"
  /\ last["go"].preCount >= 2

\* C6: a failure recorded while HalfOpen leaves the breaker Open with the
\* timer restarted at that moment, and every IsOpen made before a full
\* timeout has passed since that failure rejects.
C6_HalfOpenFailureReopens ==
  /\ (last["go"].op = "failure" /\ last["go"].pre = "half_open")
       => (gob.state = "open" /\ gob.openedAt = last["go"].at)
  /\ (last["go"].op = "check" /\ probeFailAt >= 0
        /\ last["go"].at - probeFailAt < gob.timeout)
       => ~last["go"].admitted

\* C6 witness: IsOpen has just rejected a caller within the timeout of a
\* failed probe, the timeout of the original opening being over
C6_Witness ==
  /\ last["go"].op = "check" /\ ~last["go"].admitted
  /\ probeFailAt >= 0 /\ last["go"].at - probeFailAt < gob.timeout
  /\ tripAt["go"] >= 0 /\ last["go"].at - tripAt["go"] > gob.timeout

\* C16: after a breaker has opened and while no outcome has been recorded on
\* it since, every check made once the reset timeout has elapsed since the
\* opening admits the caller; and a success that is the first outcome since
\* the opening, recorded after such an admission, leaves the breaker Closed
\* with failure count 0.
C16_OpenCircuitRecovers ==
  \A k \in Kinds :
    /\ (last[k].op = "check" /\ openSince[k] >= 0 /\ outcomesSince[k] = 0
          /\ last[k].at - openSince[k] > TimeoutOf(k))
         => last[k].admitted
    /\ (last[k].op = "success" /\ openSince[k] >= 0 /\ outcomesSince[k] = 1
          /\ admitAfter[k])
         => IF k = "ts" THEN AtRestTS(tsb) ELSE AtRestGo(gob)

\* C16 witness: each breaker opened, admitted a caller after the timeout, and
\* the success just recorded is the only outcome since the opening
C16_Witness ==
  \A k \in Kinds :
    /\ last[k].op = "success"
    /\ last[k].pre = (IF k = "ts" THEN "closed" ELSE "half_open")
    /\ openSince[k] >= 0 /\ last[k].at - openSince[k] > TimeoutOf(k)
    /\ outcomesSince[k] = 1 /\ admitAfter[k]

\* C31: a check that finds the two-state breaker open, made once resetTimeout
\* has elapsed since the breaker opened, admits the caller, whatever outcomes
\* were recorded on the breaker while it was open.
C31_ResetCountsFromOpening ==
  (last["ts"].op = "check" /\ last["ts"].pre = "open"
     /\ openSince["ts"] >= 0
     /\ last["ts"].at - openSince["ts"] > TimeoutOf("ts"))
    => last["ts"].admitted

\* C38: the three-state breaker's failureCount is never negative, and while the
\* breaker is Closed it is strictly below the threshold.
C38_ClosedCountBelowThreshold ==
  /\ gob.failureCount >= 0
  /\ gob.state = "closed" => gob.failureCount < gob.threshold

\* C38 witness: a failure recorded on a Closed breaker has left it Closed one
\* short of the threshold, after the breaker had been Open before
C38_Witness ==
  /\ last["go"].op = "failure" /\ last["go"].pre = "closed"
  /\ gob.state = "closed"
  /\ gob.failureCount = gob.threshold - 1
  /\ openSince["go"] >= 0

\* ===================================================== claims on SpecOrch

\* The latest Attempt of goroutine g's ExecuteRequest
LastAttempt(g) == attempts[g][Len(attempts[g])]

\* C11: after an attempt that failed on a timeout or a 5xx (attempts
\* remaining), the next attempt of the request goes to the same provider,
\* whatever other provider supports the model.
C11_RetrySameProvider ==
  \A g \in Goroutines :
    (opc[g] = "attempt" /\ Len(attempts[g]) >= 1
       /\ LastAttempt(g).errorType \in {"ProviderTimeoutError", "RetryableError"})
      => lastProvider[g] = LastAttempt(g).provider

\* C12: an open circuit only makes the provider be skipped: no Attempt is
\* recorded for the rejected call and the request is not ended by it.
C12_OpenCircuitSkipped ==
  \A g \in Goroutines :
    /\ \A k \in 1..Len(attempts[g]) :
         attempts[g][k].errorType # "CircuitBreakerOpenError"
    /\ ~(opc[g] = "failed" /\ oerr[g] = "CircuitBreakerOpenError")

\* ===================================================== claims on SpecRun

\* The positions, in the list of the providers that support the model, of
\* those whose circuit admits now
AdmittingNow == {k \in 1..Len(eligible) : Admits(eligible[k], now)}

\* The preferred provider when supplied and eligible, and otherwise the
\* highest-priority eligible provider
FirstChoice(g) ==
  IF preferredOf[g] # "" /\ \E k \in AdmittingNow : eligible[k] = preferredOf[g]
  THEN preferredOf[g]
  ELSE eligible[Min(AdmittingNow)]

Footprint(g) == <<attempts[g], attemptNumber[g], calls[g], gpc[g], cbs, cbMap>>

\* C30: a wait between attempts that ends otherwise than by the next attempt
\* ends by the context's error, with no attempt started and no breaker
\* touched; and from then on the request stays returned, starting no attempt
\* and recording no breaker outcome.
C30_CancelledWaitEndsRequest ==
  [][\A g \in Runners :
       /\ (opc[g] = "waiting" /\ opc'[g] # "waiting" /\ opc'[g] # "attempt")
            => /\ opc'[g] = "failed" /\ oerr'[g] = "context_error"
               /\ gpc[g] = "idle"
               /\ Footprint(g)' = Footprint(g)
       /\ oerr[g] = "context_error"
            => /\ opc'[g] = "failed" /\ oerr'[g] = "context_error"
               /\ Footprint(g)' = Footprint(g)]_vars

\* C30 witness: the request was cancelled in the wait after its second failed
\* attempt, and time has gone on since
C30_Witness ==
  /\ opc[1] = "failed" /\ oerr[1] = "context_error"
  /\ Len(attempts[1]) = 2 /\ attemptNumber[1] = 2
  /\ now = MaxTime

\* ===================================================== claims on SpecStream

Last(seq) == seq[Len(seq)]

\* The chunks written to the caller, in order
Forwarded == SelectSeq(out, LAMBDA e : e.kind = "chunk")

\* The concatenation of the content deltas of a sequence of chunks
RECURSIVE Concat(_)
Concat(chunks) ==
  IF chunks = <<>> THEN <<>>
  ELSE Concat(SubSeq(chunks, 1, Len(chunks) - 1)) \o Last(chunks).content

\* The latest thing written to the caller is the failure `message`
Reported(message) ==
  /\ out # <<>>
  /\ Last(out).kind = "error"
  /\ Last(out).message = message

\* C18: with k >= 1 chunks forwarded, once the upstream has been silent for
\* longer than chunkTimeout the next thing the relay does is report the stall;
\* a reported stall carries exactly the concatenation of the k forwarded
\* content deltas, the fetch is aborted, and no second fetch is made.
C18_StallIsTerminal ==
  /\ []((Reported(StallMessage) /\ Forwarded # <<>>)
          => /\ Last(out).partial = Concat(Forwarded)
             /\ aborted
             /\ fetches = 1
             /\ spc \in {"aborting", "ended"})
  /\ [][(spc = "read" /\ Overdue /\ Forwarded # <<>> /\ stVars' # stVars)
          => /\ Reported(StallMessage)'
             /\ Len(out') = Len(out) + 1]_vars

\* C18 witness: two chunks were forwarded, then the stall was reported with
\* their two deltas, and streamRequest has returned
C18_Witness ==
  /\ Reported(StallMessage)
  /\ Len(Forwarded) = 2
  /\ Forwarded[1].content # Forwarded[2].content
  /\ Len(out) = 3
  /\ Last(out).partial = Forwarded[1].content \o Forwarded[2].content
  /\ spc = "ended"

\* C19: the stream is reported done only if `data: [DONE]` was received.
C19_DoneOnlyAfterSentinel ==
  (out # <<>> /\ Last(out).kind = "done") => sentinel

\* C20: when a chunk fails to parse, the upstream connection is aborted.
C20_MalformedAbortsUpstream ==
  Reported(MalformedMessage) => aborted

\* C21: once the caller has disconnected, the relay cancels the upstream read
\* and stops forwarding: a chunk is written after the disconnection (the write
\* that fails) only if the fetch has been aborted by then.
C21_ClientAbortCancelsUpstream ==
  (goneAt >= 0 /\ \E k \in (goneAt + 1)..Len(out) : out[k].kind = "chunk")
    => aborted

\* C33: while the body is being read the stall timer is restarted only by a
\* complete well-formed chunk: a step that forwards no chunk and leaves the
\* relay reading leaves the timer counting from where it was, so that bytes
\* which form no chunk cannot put off the stall.
C33_TimerRestartedOnlyByChunk ==
  [][(spc = "read" /\ spc' = "read" /\ Len(Forwarded') = Len(Forwarded))
       => timerAt' = timerAt]_vars

\* onDone or onError, as written to the caller
Terminal(e) == e.kind \in {"done", "error"}

\* C35: a stream ends with exactly one terminal callback: a terminal
\* callback is the last thing ever written, so there is at most one and no
\* chunk follows it; streamRequest has one behind it once the timer's
\* callback has run or it has returned, and none before.
C35_OneTerminalCallback ==
  /\ \A k \in 1..Len(out) : Terminal(out[k]) => k = Len(out)
  /\ spc \in {"aborting", "ended"} => (out # <<>> /\ Terminal(Last(out)))
  /\ spc \in {"idle", "fetch", "read"} => \A k \in 1..Len(out) : ~Terminal(out[k])

\* C35 witness: one chunk was forwarded, the timer's callback reported the
\* stall, and the rejected read has been caught since
C35_Witness ==
  /\ spc = "ended" /\ aborted
  /\ Len(out) = 2 /\ out[1].kind = "chunk"
  /\ Reported(StallMessage)

\* Sequence a is the beginning of sequence b
IsPrefix(a, b) == Len(a) <= Len(b) /\ SubSeq(b, 1, Len(a)) = a

\* C36: at every point of a stream the partial-content buffer is the
\* concatenation, in order, of the deltas of the chunks forwarded so far; and
\* what has been forwarded is never changed afterwards, only added to at its
\* end.
C36_BufferIsForwardedDeltas ==
  /\ [](partialContent = Concat(Forwarded))
  /\ [][IsPrefix(Forwarded, Forwarded')
          /\ IsPrefix(partialContent, partialContent')]_vars

\* C36 witness: two chunks with different deltas have been forwarded and the
\* relay is still reading
C36_Witness ==
  /\ spc = "read"
  /\ out = <<OnChunk(<<"a">>), OnChunk(<<"b">>)>>
  /\ partialContent = <<"a", "b">>

\* The first n of the mock's chunk texts
FirstChunks(n) == SubSeq(MockChunks, 1, n)

\* C34: with fail_chunk = N, 1 <= N <= number of mock chunks, the mock's
\* finished response is N-1 well-formed chunks, then one malformed chunk, and
\* no [DONE]; and what the gateway has written to its caller when the stream
\* has ended is those N-1 chunks in order, then one error event whose partial
\* content is their concatenation.
C34_FailChunkRelayed ==
  \A N \in 1..Len(MockChunks) :
    askFail = [present |-> TRUE, n |-> N] =>
      /\ (direct /\ mpc = "closed") =>
           SelectSeq(wire, LAMBDA l : l # BlankLine)
             = [k \in 1..N |->
                  IF k < N
                  THEN [kind |-> "content", content |-> <<MockChunks[k]>>]
                  ELSE [kind |-> "bad"]]
      /\ (~direct /\ spc = "ended") =>
           out = [k \in 1..(N - 1) |-> OnChunk(<<MockChunks[k]>>)]
                   \o <<OnError(MalformedMessage, FirstChunks(N - 1))>>

\* The provider createStreamingHandler is given the URL of (OPENAI_URL)
StreamProvider == "openai"

\* C22: a stream that ended stalled or malformed has recorded one failure on
\* the circuit breaker of the provider that served it.
C22_StreamFailureRecorded ==
  (spc = "ended" /\ (Reported(StallMessage) \/ Reported(MalformedMessage)))
    => circuit[StreamProvider].consecutiveFails = 1

\* ==================================================== claims on SpecBackoff

\* The pre-jitter wait of the latest call is min(baseDelay * 2^(k-1),
\* maxDelay), and 1000, 2000, 4000, 8000 ms for the first four retries under
\* the default RetryConfig
PreJitterAsSpecified ==
  /\ bWait <= bMax
  /\ bWait <= bBase * 2^(bAttempt - 1)
  /\ bWait \in {bMax, bBase * 2^(bAttempt - 1)}
  /\ (bBase = 1000 /\ bMax = 10000 /\ bAttempt <= 4)
       => bWait = <<1000, 2000, 4000, 8000>>[bAttempt]

\* C24 as stated: for the k-th retry the pre-jitter wait is
\* min(baseDelay * 2^(k-1), maxDelay) and the actual wait lies within 20% of
\* it, below or above.
C24_WaitWithinFifth ==
  bAttempt >= 1
    => /\ PreJitterAsSpecified
       /\ 8 * bWait <= 10 * bActual
       /\ 10 * bActual <= 12 * bWait

\* C24 as amended: for the k-th retry the pre-jitter wait is
\* min(baseDelay * 2^(k-1), maxDelay) and the actual wait is a whole number
\* of ms at most 20% above it and less than 1 ms under 20% below it.
C24_WaitWithinFifthRoundedDown ==
  bAttempt >= 1
    => /\ PreJitterAsSpecified
       /\ 8 * bWait < 10 * (bActual + 1)
       /\ 10 * bActual <= 12 * bWait

\* C24 witness: default RetryConfig, fourth retry, 8000 ms before the jitter
\* and the lowest jitter applied
C24_Witness ==
  /\ bBase = 1000 /\ bMax = 10000
  /\ bAttempt = 4 /\ bWait = 8000
  /\ bActual = 6400

\* ==================================================== claims on SpecHandler

\* C26: a request whose body does not parse or does not validate is answered
\* 400 without any call of the provider client; the provider client is only
\* called for a valid request, and then once: Call when stream is false,
\* CallStream when it is true.
C26_ValidatedBeforeProviderCall ==
  \A h \in Inbound :
    /\ (hbody[h].kind \in {"unparseable", "invalid_typed", "invalid_other"}
          /\ hpc[h] # "parsed")
         => (hpc[h] = "returned" /\ hstatus[h] = 400)
    /\ hbody[h].kind # "valid" => (hcalled[h] = 0 /\ hstreamed[h] = 0)
    /\ hpc[h] \in {"idle", "parsed"} => (hcalled[h] = 0 /\ hstreamed[h] = 0)
    /\ (hbody[h].kind = "valid" /\ hpc[h] \notin {"idle", "parsed"})
         => /\ hcalled[h] = (IF hbody[h].stream THEN 0 ELSE 1)
            /\ hstreamed[h] = (IF hbody[h].stream THEN 1 ELSE 0)

\* C26 witness: one request was answered 400 on an error of ValidateRequest
\* that is no ValidationErrors, another is inside CallStream
C26_Witness ==
  /\ hbody[1].kind = "invalid_other" /\ hpc[1] = "returned"
  /\ hstatus[1] = 400 /\ hcalled[1] = 0 /\ hstreamed[1] = 0
  /\ hbody[2].kind = "valid" /\ hpc[2] = "in_stream" /\ hstreamed[2] = 1

====
